---- MODULE Spec2Model ----
(***************************************************************************)
(* The usage ledger of travel-pal-api: the free daily quota, the paid      *)
(* credit balance and the purchase markers kept in Redis, and the HTTP     *)
(* handlers that run the two Lua scripts against them.                     *)
(*                                                                         *)
(* A string that the code trims (a header value, and so a user id or the   *)
(* bypass secret) is the sequence of its UTF-16 code units: "a " is        *)
(* <<97, 32>>.  A string that the code formats (the day key, String(n)) is *)
(* a sequence of one-character strings.                                    *)
(* Time is the clock's reading in seconds since the Unix epoch.            *)
(***************************************************************************)
EXTENDS Integers, Sequences, FiniteSets, Bags, TLC

VARIABLES
  cfg,        \* the process configuration read from the environment at startup
  now,        \* the clock, seconds since the epoch
  ticks,      \* how many times the clock has advanced
  store,      \* Redis: key -> [val, exp]; only keys that exist are in the domain
  inflight,   \* bag of the requests being handled
  freeGrants, \* history: free key -> number of script calls that returned usedFree = 1
  paidGrants, \* history: user id -> number of script calls that were paid by a credit
  creditLog,  \* history: purchase token -> sequence of [t, user], one per didAdd = 1
  lastFree,   \* history: user id -> <<day, freeUsedAfter>> of the last consume call
  lastCredits \* history: user id -> <<creditsAfter>> of the last script call

vars == <<cfg, now, ticks, store, inflight,
          freeGrants, paidGrants, creditLog, lastFree, lastCredits>>

hist == <<freeGrants, paidGrants, creditLog, lastFree, lastCredits>>

-----------------------------------------------------------------------------
(* Bounds of the model *)

\* requests that may be in flight at once
MaxInflight == 2
\* times the clock may advance
MaxTicks == 2
\* concurrent calls of the burst scenarios
NumCalls == 3
\* largest counter and balance found in the store when the process starts
MaxStored == 3

\* values of FREE_LIMIT_PER_DAY and CREDITS_PER_TOPUP tried in the scenarios
FreeLimits == {0, 1, 2}
TopupAmounts == {1, 2}

\* x-user-id and x-dev-bypass header values tried; <<>> is also "header absent".
\* The user ids "a" (97) and "b" (98), the secret "s" (115) and the wrong
\* secret "x" (120), alone and between a tab (9), a vertical tab (11), a line
\* feed (10), a space (32) or a no-break space (160).
UserHeaders == {<<>>, <<9>>, <<97>>, <<9, 97, 32>>, <<98>>}
BypassHeaders == {<<>>, <<115>>, <<115, 10>>, <<120>>}
\* purchaseToken values tried; "" is also "field absent"
Tokens == {"", "tokA"}
\* and the tokens of two purchases, where one balance is credited twice
BookTokens == {"", "tokA", "tokB"}

\* what is tried while the clock advances: the requests of one user, from two
\* clients that each wait for their answer
ClockUserHeaders == {<<>>, <<97>>, <<11, 97, 160>>}
ClockClients == {"c1", "c2"}

\* the clock's first reading: 2024-02-28T12:00:00Z
StartTime == (19781 * 86400) + (12 * 3600)
\* how far the clock may jump while requests are in flight: 12 hours
ShortStep == 12 * 3600
\* how far it may jump between requests: 365 days
LongSteps == {365 * 86400}

-----------------------------------------------------------------------------
(* Strings *)

Range(s) == {s[i] : i \in 1..Len(s)}

\* The code units that String.prototype.trim strips: ECMAScript's WhiteSpace
\* (tab U+0009, vertical tab U+000B, form feed U+000C, U+FEFF, and the space
\* separators U+0020, U+00A0, U+1680, U+2000 to U+200A, U+202F, U+205F, U+3000)
\* and LineTerminator (U+000A, U+000D, U+2028, U+2029).
WhiteSpaceChars ==
  {9, 10, 11, 12, 13, 32, 160, 5760, 8232, 8233, 8239, 8287, 12288, 65279}
    \cup (8192..8202)

RECURSIVE TrimStart(_)
TrimStart(s) ==
  IF s # <<>> /\ Head(s) \in WhiteSpaceChars THEN TrimStart(Tail(s)) ELSE s

RECURSIVE TrimEnd(_)
TrimEnd(s) ==
  IF s # <<>> /\ s[Len(s)] \in WhiteSpaceChars
  THEN TrimEnd(SubSeq(s, 1, Len(s) - 1))
  ELSE s

\* String.prototype.trim
Trim(s) == TrimEnd(TrimStart(s))

DigitChars == <<"0", "1", "2", "3", "4", "5", "6", "7", "8", "9">>

\* String(n) of a natural number
RECURSIVE Dec(_)
Dec(n) ==
  IF n < 10 THEN <<DigitChars[n + 1]>>
  ELSE Dec(n \div 10) \o <<DigitChars[(n % 10) + 1]>>

\* s.padStart(2, "0")
PadStart2(s) ==
  IF Len(s) >= 2 THEN s ELSE IF Len(s) = 1 THEN <<"0">> \o s ELSE <<"0", "0">>

-----------------------------------------------------------------------------
(* The clock and the day key *)

SecondsPerDay == 86400

\* The UTC calendar date of instant t, as Date's getUTCFullYear, getUTCMonth
\* (0-based) and getUTCDate give it.
UTCFields(t) ==
  LET z    == (t \div SecondsPerDay) + 719468
      era  == z \div 146097
      doe  == z - era * 146097
      yoe  == (doe - doe \div 1460 + doe \div 36524 - doe \div 146096) \div 365
      doy  == doe - (365 * yoe + yoe \div 4 - yoe \div 100)
      mp   == (5 * doy + 2) \div 153
      d    == doy - ((153 * mp + 2) \div 5) + 1
      m    == IF mp < 10 THEN mp + 3 ELSE mp - 9
      y    == yoe + era * 400 + (IF m <= 2 THEN 1 ELSE 0)
  IN  [year |-> y, month |-> m - 1, date |-> d]

\* a faulty variant: the date read in a local time zone one hour east of UTC
\* (getFullYear, getMonth, getDate)
utcDayKeyLocalTime(t) ==
  LET d == UTCFields(t + 3600)
      yyyy == Dec(d.year)
      mm == PadStart2(Dec(d.month + 1))
      dd == PadStart2(Dec(d.date))
  IN  yyyy \o <<"-">> \o mm \o <<"-">> \o dd

utcDayKeyAt(t) ==
  LET d == UTCFields(t)
      yyyy == Dec(d.year)
      mm == PadStart2(Dec(d.month + 1))
      dd == PadStart2(Dec(d.date))
  IN  yyyy \o <<"-">> \o mm \o <<"-">> \o dd

utcDayKey == utcDayKeyAt(now)

creditsKey(userId) == <<"tp:credits:", userId>>

\* a faulty variant: the counter's key without the day
freeUsedKeyNoDay(userId, dayKey) == <<"tp:free_used:", userId>>

freeUsedKey(userId, dayKey) == <<"tp:free_used:", userId, ":", dayKey>>

purchaseKey(purchaseToken) == <<"tp:purchase:", purchaseToken>>

-----------------------------------------------------------------------------
(* Redis: the commands the code uses.  A value is an integer (Redis keeps its
   decimal string); a key that does not exist is not in the store's domain.
   An entry's exp is the instant it expires at, or NoExpiry. *)

NoExpiry == -1

Exists(s, k) == k \in DOMAIN s

\* GET's reply: <<v>>, or <<>> (nil) for a key that does not exist
Get(s, k) == IF Exists(s, k) THEN <<s[k].val>> ELSE <<>>

\* tonumber(redis.call("GET", k) or "0") and Number(raw || 0)
NumOrZero(reply) == IF reply = <<>> THEN 0 ELSE reply[1]

Put(s, k, e) == [x \in DOMAIN s \cup {k} |-> IF x = k THEN e ELSE s[x]]

\* INCRBY (INCR, DECR): a missing key counts from 0; the expiry is kept
IncrBy(s, k, n) ==
  IF Exists(s, k) THEN [s EXCEPT ![k].val = @ + n]
  ELSE Put(s, k, [val |-> n, exp |-> NoExpiry])

\* SET k v: the value is replaced and any expiry is dropped
Set(s, k, v) == Put(s, k, [val |-> v, exp |-> NoExpiry])

\* SET k v EX ttl
SetEx(s, k, v, ttl, t) == Put(s, k, [val |-> v, exp |-> t + ttl])

\* a faulty variant: the time to live is taken for milliseconds
ExpireInMillis(s, k, ttl, t) ==
  IF Exists(s, k) THEN [s EXCEPT ![k].exp = t + (ttl \div 1000)] ELSE s

\* EXPIRE k ttl: no effect on a missing key
Expire(s, k, ttl, t) ==
  IF Exists(s, k) THEN [s EXCEPT ![k].exp = t + ttl] ELSE s

\* the keys that are still there at instant t
Unexpired(s, t) ==
  LET keep == {k \in DOMAIN s : s[k].exp = NoExpiry \/ s[k].exp > t}
  IN  [k \in keep |-> s[k]]

-----------------------------------------------------------------------------
(* Faulty variants of the two scripts.  The program does not run them: each
   differs from the script below it by one plausible slip, and the properties
   are expected to tell the difference. *)

\* the balance test is ">= 0": a call at balance 0 is let through, the clamp
\* hides the overdraft
ConsumeAtZero(s, freeKey, cKey, freeLimit) ==
  LET freeUsed == NumOrZero(Get(s, freeKey))
      credits  == NumOrZero(Get(s, cKey))
  IN  IF freeUsed < freeLimit
      THEN LET s1 == IncrBy(s, freeKey, 1)
           IN  [store |-> s1, ret |-> <<1, 1, s1[freeKey].val, credits>>]
      ELSE IF credits >= 0
      THEN LET s1 == IncrBy(s, cKey, -1)
               c1 == s1[cKey].val
           IN  IF c1 < 0
               THEN [store |-> Set(s1, cKey, 0), ret |-> <<1, 0, freeUsed, 0>>]
               ELSE [store |-> s1, ret |-> <<1, 0, freeUsed, c1>>]
      ELSE [store |-> s, ret |-> <<0, 0, freeUsed, credits>>]

\* neither the balance test nor the clamp: every call past the free allowance
\* is charged
ConsumeUnguarded(s, freeKey, cKey, freeLimit) ==
  LET freeUsed == NumOrZero(Get(s, freeKey))
      credits  == NumOrZero(Get(s, cKey))
  IN  IF freeUsed < freeLimit
      THEN LET s1 == IncrBy(s, freeKey, 1)
           IN  [store |-> s1, ret |-> <<1, 1, s1[freeKey].val, credits>>]
      ELSE LET s1 == IncrBy(s, cKey, -1)
           IN  [store |-> s1, ret |-> <<1, 0, freeUsed, s1[cKey].val>>]

\* the free test is "<=": one free request too many
ConsumeOffByOne(s, freeKey, cKey, freeLimit) ==
  LET freeUsed == NumOrZero(Get(s, freeKey))
      credits  == NumOrZero(Get(s, cKey))
  IN  IF freeUsed <= freeLimit
      THEN LET s1 == IncrBy(s, freeKey, 1)
           IN  [store |-> s1, ret |-> <<1, 1, s1[freeKey].val, credits>>]
      ELSE IF credits > 0
      THEN LET s1 == IncrBy(s, cKey, -1)
           IN  [store |-> s1, ret |-> <<1, 0, freeUsed, s1[cKey].val>>]
      ELSE [store |-> s, ret |-> <<0, 0, freeUsed, credits>>]

\* the two branches in the other order: credits are charged while free quota
\* remains
ConsumeCreditsFirst(s, freeKey, cKey, freeLimit) ==
  LET freeUsed == NumOrZero(Get(s, freeKey))
      credits  == NumOrZero(Get(s, cKey))
  IN  IF credits > 0
      THEN LET s1 == IncrBy(s, cKey, -1)
           IN  [store |-> s1, ret |-> <<1, 0, freeUsed, s1[cKey].val>>]
      ELSE IF freeUsed < freeLimit
      THEN LET s1 == IncrBy(s, freeKey, 1)
           IN  [store |-> s1, ret |-> <<1, 1, s1[freeKey].val, credits>>]
      ELSE [store |-> s, ret |-> <<0, 0, freeUsed, credits>>]

\* the credit branch without its DECR: allowed, not charged
ConsumeNoCharge(s, freeKey, cKey, freeLimit) ==
  LET freeUsed == NumOrZero(Get(s, freeKey))
      credits  == NumOrZero(Get(s, cKey))
  IN  IF freeUsed < freeLimit
      THEN LET s1 == IncrBy(s, freeKey, 1)
           IN  [store |-> s1, ret |-> <<1, 1, s1[freeKey].val, credits>>]
      ELSE IF credits > 0
      THEN [store |-> s, ret |-> <<1, 0, freeUsed, credits>>]
      ELSE [store |-> s, ret |-> <<0, 0, freeUsed, credits>>]

\* the deny branch counts the attempt on the free counter
ConsumeCountsDenied(s, freeKey, cKey, freeLimit) ==
  LET freeUsed == NumOrZero(Get(s, freeKey))
      credits  == NumOrZero(Get(s, cKey))
  IN  IF freeUsed < freeLimit
      THEN LET s1 == IncrBy(s, freeKey, 1)
           IN  [store |-> s1, ret |-> <<1, 1, s1[freeKey].val, credits>>]
      ELSE IF credits > 0
      THEN LET s1 == IncrBy(s, cKey, -1)
           IN  [store |-> s1, ret |-> <<1, 0, freeUsed, s1[cKey].val>>]
      ELSE [store |-> IncrBy(s, freeKey, 1), ret |-> <<0, 0, freeUsed, credits>>]

\* the credit branch also counts the request on the free counter
ConsumeCountsPaid(s, freeKey, cKey, freeLimit) ==
  LET freeUsed == NumOrZero(Get(s, freeKey))
      credits  == NumOrZero(Get(s, cKey))
  IN  IF freeUsed < freeLimit
      THEN LET s1 == IncrBy(s, freeKey, 1)
           IN  [store |-> s1, ret |-> <<1, 1, s1[freeKey].val, credits>>]
      ELSE IF credits > 0
      THEN LET s1 == IncrBy(IncrBy(s, cKey, -1), freeKey, 1)
           IN  [store |-> s1, ret |-> <<1, 0, s1[freeKey].val, s1[cKey].val>>]
      ELSE [store |-> s, ret |-> <<0, 0, freeUsed, credits>>]

\* the marker is not looked at: every call adds
AddCreditsAlways(s, pKey, cKey, add, ttl, t) ==
  LET s1 == SetEx(s, pKey, 1, ttl, t)
      s2 == IncrBy(s1, cKey, add)
  IN  [store |-> s2, ret |-> <<1, s2[cKey].val>>]

\* the marker is looked at but never written
AddCreditsNoMarker(s, pKey, cKey, add, ttl, t) ==
  IF Exists(s, pKey)
  THEN [store |-> s, ret |-> <<0, NumOrZero(Get(s, cKey))>>]
  ELSE LET s2 == IncrBy(s, cKey, add)
       IN  [store |-> s2, ret |-> <<1, s2[cKey].val>>]

\* the marker is written but the balance is not increased
AddCreditsMarkerOnly(s, pKey, cKey, add, ttl, t) ==
  IF Exists(s, pKey)
  THEN [store |-> s, ret |-> <<0, NumOrZero(Get(s, cKey))>>]
  ELSE LET s1 == SetEx(s, pKey, 1, ttl, t)
       IN  [store |-> s1, ret |-> <<1, NumOrZero(Get(s1, cKey)) + add>>]

\* the balance is set to the top-up amount instead of being increased by it
AddCreditsOverwrites(s, pKey, cKey, add, ttl, t) ==
  IF Exists(s, pKey)
  THEN [store |-> s, ret |-> <<0, NumOrZero(Get(s, cKey))>>]
  ELSE LET s1 == SetEx(s, pKey, 1, ttl, t)
           s2 == Set(s1, cKey, add)
       IN  [store |-> s2, ret |-> <<1, s2[cKey].val>>]

-----------------------------------------------------------------------------
(* The two Lua scripts.  Each runs atomically in Redis: it is one step, from
   store s to the store it leaves, with the array it returns. *)

\* [allowed, usedFree, freeUsedAfter, creditsAfter]
LUA_CONSUME_USAGE(s, freeKey, cKey, freeLimit) ==
  LET freeUsed == NumOrZero(Get(s, freeKey))
      credits  == NumOrZero(Get(s, cKey))
  IN  IF freeUsed < freeLimit
      THEN LET s1 == IncrBy(s, freeKey, 1)
           IN  [store |-> s1, ret |-> <<1, 1, s1[freeKey].val, credits>>]
      ELSE IF credits > 0
      THEN LET s1 == IncrBy(s, cKey, -1)
               c1 == s1[cKey].val
           IN  IF c1 < 0
               THEN [store |-> Set(s1, cKey, 0), ret |-> <<1, 0, freeUsed, 0>>]
               ELSE [store |-> s1, ret |-> <<1, 0, freeUsed, c1>>]
      ELSE [store |-> s, ret |-> <<0, 0, freeUsed, credits>>]

\* [didAdd, creditsAfter]
LUA_ADD_CREDITS_IF_NEW_PURCHASE(s, pKey, cKey, add, ttl, t) ==
  IF Exists(s, pKey)
  THEN [store |-> s, ret |-> <<0, NumOrZero(Get(s, cKey))>>]
  ELSE LET s1 == SetEx(s, pKey, 1, ttl, t)
           s2 == IncrBy(s1, cKey, add)
       IN  [store |-> s2, ret |-> <<1, s2[cKey].val>>]

Max(a, b) == IF a >= b THEN a ELSE b

\* a faulty variant: "used" and "remaining" are swapped
getCreditsStatusRemaining(s, userId, day) ==
  LET used    == NumOrZero(Get(s, freeUsedKey(userId, day)))
      credits == NumOrZero(Get(s, creditsKey(userId)))
  IN  [limit |-> cfg.freeLimit, used |-> Max(0, cfg.freeLimit - used),
       remaining |-> used, day |-> day, credits |-> credits]

\* a faulty variant: "remaining" without Math.max
getCreditsStatusUnclamped(s, userId, day) ==
  LET used    == NumOrZero(Get(s, freeUsedKey(userId, day)))
      credits == NumOrZero(Get(s, creditsKey(userId)))
  IN  [limit |-> cfg.freeLimit, used |-> used,
       remaining |-> cfg.freeLimit - used, day |-> day, credits |-> credits]

\* What getCreditsStatus returns when its MGET runs on store s for day key day
getCreditsStatus(s, userId, day) ==
  LET used    == NumOrZero(Get(s, freeUsedKey(userId, day)))
      credits == NumOrZero(Get(s, creditsKey(userId)))
  IN  [limit |-> cfg.freeLimit, used |-> used,
       remaining |-> Max(0, cfg.freeLimit - used), day |-> day,
       credits |-> credits]

-----------------------------------------------------------------------------
(* Requests.  A request in flight is a record: the handler it runs (kind),
   where it is (pc), its locals, and, once answered, the response. *)

\* the user ids the headers tried can give
UserIds == {Trim(h) : h \in UserHeaders} \ {<<>>}

RealTokens == (Tokens \cup BookTokens) \ {""}

\* the retention windows, in seconds
FreeKeyTtl == 60 * 60 * 24 * 3
PurchaseTtl == 60 * 60 * 24 * 365

\* the string "dev_bypass"
DevBypassUser == <<100, 101, 118, 95, 98, 121, 112, 97, 115, 115>>

NoResp ==
  [status |-> 0, error |-> "", ok |-> -1, didAdd |-> -1, creditsAfter |-> -1,
   purchaseState |-> -1, data |-> -1,
   limit |-> -1, used |-> -1, remaining |-> -1, day |-> <<>>, credits |-> -1]

\* res.status(status).json({ error })
ErrorResp(status, error) == [NoResp EXCEPT !.status = status, !.error = error]

\* the fields a status object (getCreditsStatus's, or /analyze's quotaSnapshot)
\* adds to a response
WithStatus(resp, st) ==
  [resp EXCEPT !.limit = st.limit, !.used = st.used, !.remaining = st.remaining,
               !.day = st.day, !.credits = st.credits]

\* pc: the await the handler is at ("eval", "expire", "vision" in /analyze;
\* "client", "get", "consume", "credit", "reply", "status" in /verify-purchase;
\* "incr", "expire", "vision" in index.js);
\* billing: how far the billing calls of /verify-purchase got;
\* vision: whether the vision call of /analyze was made
NewReq(kind) ==
  [kind |-> kind, pc |-> "new", userId |-> <<>>, bypass |-> FALSE, day |-> <<>>,
   token |-> "", billing |-> "", vision |-> FALSE, ret |-> <<>>, resp |-> NoResp]

Answered(r, resp) == [r EXCEPT !.pc = "done", !.resp = resp]

Inflight == BagToSet(inflight)

\* a request arrives and runs to its first await (r2), or to its answer
Arrive(r2) ==
  inflight' = IF r2.pc = "done" THEN inflight ELSE inflight (+) SetToBag({r2})

\* request r goes on to r2: its next await, or its answer, which ends it
Replace(r, r2) ==
  IF r2.pc = "done" THEN inflight (-) SetToBag({r})
  ELSE (inflight (-) SetToBag({r})) (+) SetToBag({r2})

CanAccept(cap) == BagCardinality(inflight) < cap

\* getUserId: the trimmed x-user-id header, or null (here <<>>) when it is empty
getUserId(userHdr) == Trim(userHdr)

\* a faulty variant: without the test that a secret is configured
isDevBypassUnconfigured(bypassHdr) == Trim(bypassHdr) = cfg.devToken

\* isDevBypass
isDevBypass(bypassHdr) ==
  IF cfg.devToken = <<>> THEN FALSE
  ELSE LET t == Trim(bypassHdr) IN t # <<>> /\ t = cfg.devToken

-----------------------------------------------------------------------------
(* History of the script calls (read by the properties only) *)

Bump(f, k) == IF k \in DOMAIN f THEN [f EXCEPT ![k] = @ + 1] ELSE (k :> 1) @@ f

Count(f, k) == IF k \in DOMAIN f THEN f[k] ELSE 0

\* a consume call for (userId, day) returned ret
NoteConsume(userId, day, ret) ==
  /\ freeGrants' = IF ret[2] = 1 THEN Bump(freeGrants, freeUsedKey(userId, day))
                   ELSE freeGrants
  /\ paidGrants' = IF ret[1] = 1 /\ ret[2] = 0 THEN Bump(paidGrants, userId)
                   ELSE paidGrants
  /\ lastFree' = [lastFree EXCEPT ![userId] = <<day, ret[3]>>]
  /\ lastCredits' = [lastCredits EXCEPT ![userId] = <<ret[4]>>]
  /\ UNCHANGED creditLog

\* a crediting call for (token, userId) returned ret
NoteCredit(token, userId, ret) ==
  /\ creditLog' = IF ret[1] = 1
                  THEN [creditLog EXCEPT ![token] = Append(@, [t |-> now, user |-> userId])]
                  ELSE creditLog
  /\ lastCredits' = [lastCredits EXCEPT ![userId] = <<ret[2]>>]
  /\ UNCHANGED <<freeGrants, paidGrants, lastFree>>

-----------------------------------------------------------------------------
(* POST /analyze *)

\* how the vision call (openaiResponsesCreate and the parsing of its output)
\* can end
VisionOutcomes == {"ok", "error", "no_output"}

\* The quota gate is passed: the vision request is sent and the handler waits
\* for its reply.
AwaitVision(r) == [r EXCEPT !.pc = "vision", !.vision = TRUE]

\* The answer of /analyze once the vision call has ended.  snapshot is
\* <<the quotaSnapshot>>, or <<>> on a bypass.
AnalyzeVision(r, snapshot, outcome) ==
  LET okResp == [NoResp EXCEPT !.status = 200, !.data = 1]
      resp == IF outcome = "error" THEN ErrorResp(500, "OpenAI error")
              ELSE IF outcome = "no_output" THEN ErrorResp(500, "No output_text")
              ELSE IF snapshot = <<>> THEN okResp
              ELSE WithStatus(okResp, snapshot[1])
  IN  Answered(r, resp)

\* From the request's arrival to the first await: the checks, then the consume
\* script is sent (the day key is taken here).  A bypass request never awaits
\* Redis: its first await is the vision call.
AnalyzeArrival(hasImage, bypassHdr, userHdr) ==
  LET devBypass == isDevBypass(bypassHdr)
      userId == IF devBypass THEN DevBypassUser ELSE getUserId(userHdr)
      r0 == NewReq("analyze")
      r1 == [r0 EXCEPT !.userId = userId, !.bypass = devBypass]
  IN  IF ~hasImage THEN Answered(r0, ErrorResp(400, "Missing imageBase64"))
      ELSE IF userId = <<>> THEN Answered(r0, ErrorResp(400, "Missing x-user-id"))
      ELSE IF ~cfg.redis THEN Answered(r1, ErrorResp(500, "NO_REDIS"))
      ELSE IF ~devBypass THEN [r1 EXCEPT !.pc = "eval", !.day = utcDayKey]
      ELSE AwaitVision(r1)

AnalyzeStart(hasImage, bypassHdr, userHdr) ==
  /\ Arrive(AnalyzeArrival(hasImage, bypassHdr, userHdr))
  /\ UNCHANGED <<cfg, now, ticks, store, hist>>

\* redis.eval(LUA_CONSUME_USAGE, 2, freeKey, cKey, String(FREE_LIMIT_PER_DAY))
TryConsume(s, userId, day) ==
  LUA_CONSUME_USAGE(s, freeUsedKey(userId, day), creditsKey(userId), cfg.freeLimit)

\* the script runs in Redis and its reply reaches the handler, which sends the
\* expire command
AnalyzeEval(r) ==
  /\ r.kind = "analyze" /\ r.pc = "eval"
  /\ LET out == TryConsume(store, r.userId, r.day)
     IN  /\ store' = out.store
         /\ inflight' = Replace(r, [r EXCEPT !.pc = "expire", !.ret = out.ret])
         /\ NoteConsume(r.userId, r.day, out.ret)
  /\ UNCHANGED <<cfg, now, ticks>>

\* a variant that fails open: the request goes on as if it had been allowed
StoreErrorFailsOpen(r) == AwaitVision(r)

\* a variant that answers a store error like an exhausted quota
StoreErrorAsPaywall(r) == Answered(r, ErrorResp(402, "PAYWALL"))

\* a store call of request r rejected: the handler's catch answers 500 with the
\* error's message
StoreError(r) == Answered(r, ErrorResp(500, "REDIS_ERROR"))

\* the store cannot be reached: redis.eval rejects, the handler's catch answers
AnalyzeEvalFail(r) ==
  /\ r.kind = "analyze" /\ r.pc = "eval"
  /\ inflight' = Replace(r, StoreError(r))
  /\ UNCHANGED <<cfg, now, ticks, store, hist>>

\* the quotaSnapshot /analyze builds from the script's reply
quotaSnapshot(r) ==
  LET freeUsedAfter == r.ret[3]
      creditsAfter == r.ret[4]
  IN  [limit |-> cfg.freeLimit, used |-> freeUsedAfter,
       remaining |-> Max(0, cfg.freeLimit - freeUsedAfter), day |-> r.day,
       credits |-> creditsAfter]

\* a faulty variant: the reply's allowed flag is not looked at
AfterExpireUngated(r) == AwaitVision(r)

\* after the expire call settled: the paywall answer, or the vision request is
\* sent
AfterExpire(r) ==
  LET allowed == r.ret[1] = 1
  IN  IF ~allowed
      THEN Answered(r, WithStatus(ErrorResp(402, "PAYWALL"), quotaSnapshot(r)))
      ELSE AwaitVision(r)

\* redis.expire(freeKey, 60 * 60 * 24 * 3) succeeds
AnalyzeExpire(r) ==
  /\ r.kind = "analyze" /\ r.pc = "expire"
  /\ store' = Expire(store, freeUsedKey(r.userId, r.day), FreeKeyTtl, now)
  /\ inflight' = Replace(r, AfterExpire(r))
  /\ UNCHANGED <<cfg, now, ticks, hist>>

\* a faulty variant: a failed expire call takes the consumed free unit back
AnalyzeExpireFailRollsBack(r) ==
  /\ r.kind = "analyze" /\ r.pc = "expire"
  /\ store' = IF r.ret[2] = 1 THEN IncrBy(store, freeUsedKey(r.userId, r.day), -1)
               ELSE store
  /\ inflight' = Replace(r, StoreError(r))
  /\ UNCHANGED <<cfg, now, ticks, hist>>

\* redis.expire rejects; .catch(() => {}) swallows it
AnalyzeExpireFail(r) ==
  /\ r.kind = "analyze" /\ r.pc = "expire"
  /\ inflight' = Replace(r, AfterExpire(r))
  /\ UNCHANGED <<cfg, now, ticks, store, hist>>

\* the answer of /analyze when the vision call ends with outcome
AnalyzeAnswer(r, outcome) ==
  AnalyzeVision(r, IF r.bypass THEN <<>> ELSE <<quotaSnapshot(r)>>, outcome)

\* a faulty variant: a failed vision call gives the consumed unit back
AnalyzeVisionDoneRefunds(r, outcome) ==
  /\ r.kind = "analyze" /\ r.pc = "vision"
  /\ store' = IF ~r.bypass /\ outcome # "ok"
               THEN IF r.ret[2] = 1
                    THEN IncrBy(store, freeUsedKey(r.userId, r.day), -1)
                    ELSE IncrBy(store, creditsKey(r.userId), 1)
               ELSE store
  /\ inflight' = Replace(r, AnalyzeAnswer(r, outcome))
  /\ UNCHANGED <<cfg, now, ticks, hist>>

\* openaiResponsesCreate settles: it throws, it brings no output text, or it
\* brings the classification; the handler answers
AnalyzeVisionDone(r, outcome) ==
  /\ r.kind = "analyze" /\ r.pc = "vision"
  /\ inflight' = Replace(r, AnalyzeAnswer(r, outcome))
  /\ UNCHANGED <<cfg, now, ticks, store, hist>>

-----
(* POST /verify-purchase *)

\* How the three calls to the billing collaborator can settle: the client is
\* built or getAndroidPublisherClient throws; purchases.products.get throws or
\* reports purchaseState 0 (purchased), 1 (canceled) or 2 (pending);
\* purchases.products.consume throws or returns.  What is thrown reaches the
\* handler's catch, which answers 500 with the error's message: "BILLING_ERROR"
\* stands for the message of a billing error, "REDIS_ERROR" for that of a
\* store error.
ClientOutcomes == {"client_error", "client"}

GetOutcomes == {"get_error", "purchased", "canceled", "pending"}

ConsumeOutcomes == {"consume_error", "consumed"}

purchaseStateOf(outcome) ==
  IF outcome = "canceled" THEN 1 ELSE IF outcome = "pending" THEN 2 ELSE 0

BillingError(r) == Answered(r, ErrorResp(500, "BILLING_ERROR"))

\* From the request's arrival to the first await: the checks, then the billing
\* client is asked for.  hasPackage: GOOGLE_PLAY_PACKAGE_NAME is set.
VerifyArrival(userHdr, hasProduct, token, hasPackage) ==
  LET userId == getUserId(userHdr)
      r0 == NewReq("verify")
      r1 == [r0 EXCEPT !.userId = userId, !.token = token]
  IN  IF userId = <<>> THEN Answered(r0, ErrorResp(400, "Missing x-user-id"))
      ELSE IF ~cfg.redis THEN Answered(r1, ErrorResp(500, "NO_REDIS"))
      ELSE IF ~hasProduct \/ token = ""
      THEN Answered(r1, ErrorResp(400, "Missing productId/purchaseToken"))
      ELSE IF ~hasPackage
      THEN Answered(r1, ErrorResp(500, "Missing GOOGLE_PLAY_PACKAGE_NAME"))
      ELSE [r1 EXCEPT !.pc = "client"]

VerifyStart(userHdr, hasProduct, token, hasPackage) ==
  /\ Arrive(VerifyArrival(userHdr, hasProduct, token, hasPackage))
  /\ UNCHANGED <<cfg, now, ticks, store, hist>>

\* getAndroidPublisherClient settles: purchases.products.get is called
VerifyClient(r, outcome) ==
  /\ r.kind = "verify" /\ r.pc = "client"
  /\ inflight' = Replace(r, IF outcome = "client_error" THEN BillingError(r)
                            ELSE [r EXCEPT !.pc = "get", !.billing = "client"])
  /\ UNCHANGED <<cfg, now, ticks, store, hist>>

\* a faulty variant: the purchase state is not looked at
AfterGetAnyState(r, outcome) ==
  IF outcome = "get_error" THEN BillingError(r)
  ELSE [r EXCEPT !.pc = "consume", !.billing = "verified"]

\* after purchases.products.get settled: the catch's answer, the answer to a
\* purchase that is not completed, or purchases.products.consume is called
AfterGet(r, outcome) ==
  LET purchaseState == purchaseStateOf(outcome)
  IN  IF outcome = "get_error" THEN BillingError(r)
      ELSE IF purchaseState # 0
      THEN Answered(r, [ErrorResp(402, "PURCHASE_NOT_COMPLETED")
                          EXCEPT !.purchaseState = purchaseState])
      ELSE [r EXCEPT !.pc = "consume", !.billing = "verified"]

\* purchases.products.get settles
VerifyGet(r, outcome) ==
  /\ r.kind = "verify" /\ r.pc = "get"
  /\ inflight' = Replace(r, AfterGet(r, outcome))
  /\ UNCHANGED <<cfg, now, ticks, store, hist>>

\* purchases.products.consume settles: the crediting script is sent
VerifyConsume(r, outcome) ==
  /\ r.kind = "verify" /\ r.pc = "consume"
  /\ inflight' = Replace(r, IF outcome = "consume_error" THEN BillingError(r)
                            ELSE [r EXCEPT !.pc = "credit", !.billing = "consumed"])
  /\ UNCHANGED <<cfg, now, ticks, store, hist>>

\* redis.eval(LUA_ADD_CREDITS_IF_NEW_PURCHASE, 2, pKey, cKey,
\*            String(CREDITS_PER_TOPUP), String(ttlSeconds))
\* a faulty variant: the marker is kept per user and token
CreditIfNewPurchasePerUser(s, token, userId, t) ==
  LUA_ADD_CREDITS_IF_NEW_PURCHASE(s, <<"tp:purchase:", userId, ":", token>>,
                                  creditsKey(userId), cfg.topup, PurchaseTtl, t)

CreditIfNewPurchase(s, token, userId, t) ==
  LUA_ADD_CREDITS_IF_NEW_PURCHASE(s, purchaseKey(token), creditsKey(userId),
                                  cfg.topup, PurchaseTtl, t)

\* the crediting script runs in Redis; its reply is on its way to the handler
VerifyCredit(r) ==
  /\ r.kind = "verify" /\ r.pc = "credit"
  /\ LET out == CreditIfNewPurchase(store, r.token, r.userId, now)
     IN  /\ store' = out.store
         /\ inflight' = Replace(r, [r EXCEPT !.pc = "reply", !.ret = out.ret])
         /\ NoteCredit(r.token, r.userId, out.ret)
  /\ UNCHANGED <<cfg, now, ticks>>

\* the script's reply reaches the handler, which reads didAdd and creditsAfter
\* off it and goes on into getCreditsStatus: the day key is taken from the clock
\* as it stands by then, and the MGET is sent
VerifyReply(r) ==
  /\ r.kind = "verify" /\ r.pc = "reply"
  /\ inflight' = Replace(r, [r EXCEPT !.pc = "status", !.day = utcDayKey])
  /\ UNCHANGED <<cfg, now, ticks, store, hist>>

\* a faulty variant: a token that was already credited is answered as a conflict
VerifyAnswerConflict(r, s) ==
  IF r.ret[1] = 1
  THEN Answered(r, WithStatus([NoResp EXCEPT !.status = 200, !.ok = 1, !.didAdd = 1,
                                             !.creditsAfter = r.ret[2]],
                              getCreditsStatus(s, r.userId, r.day)))
  ELSE Answered(r, ErrorResp(409, "ALREADY_CREDITED"))

\* a faulty variant: the status is not read again, the script's balance is
\* reported as credits.remaining
VerifyAnswerEchoesReply(r, s) ==
  LET didAdd == IF r.ret[1] = 1 THEN 1 ELSE 0
      st == getCreditsStatus(s, r.userId, r.day)
      resp == [NoResp EXCEPT !.status = 200, !.ok = 1, !.didAdd = didAdd,
                             !.creditsAfter = r.ret[2]]
  IN  Answered(r, WithStatus(resp, [st EXCEPT !.credits = r.ret[2]]))

\* the answer of /verify-purchase when the MGET replies on store s
VerifyAnswer(r, s) ==
  LET didAdd == IF r.ret[1] = 1 THEN 1 ELSE 0
      creditsAfter == r.ret[2]
      resp == [NoResp EXCEPT !.status = 200, !.ok = 1, !.didAdd = didAdd,
                             !.creditsAfter = creditsAfter]
  IN  Answered(r, WithStatus(resp, getCreditsStatus(s, r.userId, r.day)))

\* the MGET of getCreditsStatus answers, and the handler answers
VerifyStatus(r) ==
  /\ r.kind = "verify" /\ r.pc = "status"
  /\ inflight' = Replace(r, VerifyAnswer(r, store))
  /\ UNCHANGED <<cfg, now, ticks, store, hist>>

\* a faulty variant: the crediting call that fails has written the marker
VerifyStoreFailKeepsMarker(r) ==
  /\ r.kind = "verify" /\ r.pc \in {"credit", "status"}
  /\ store' = IF r.pc = "credit"
               THEN SetEx(store, purchaseKey(r.token), 1, PurchaseTtl, now)
               ELSE store
  /\ inflight' = Replace(r, StoreError(r))
  /\ UNCHANGED <<cfg, now, ticks, hist>>

\* the store cannot be reached for the script or for the MGET
VerifyStoreFail(r) ==
  /\ r.kind = "verify" /\ r.pc \in {"credit", "status"}
  /\ inflight' = Replace(r, StoreError(r))
  /\ UNCHANGED <<cfg, now, ticks, store, hist>>

-----------------------------------------------------------------------------
(* GET /credits *)

\* From the request's arrival into getCreditsStatus, up to its MGET
CreditsArrival(userHdr) ==
  LET userId == getUserId(userHdr)
      r0 == NewReq("credits")
      r1 == [r0 EXCEPT !.userId = userId]
  IN  IF userId = <<>> THEN Answered(r0, ErrorResp(400, "Missing x-user-id"))
      ELSE IF ~cfg.redis THEN Answered(r1, ErrorResp(500, "NO_REDIS"))
      ELSE [r1 EXCEPT !.pc = "status", !.day = utcDayKey]

CreditsStart(userHdr) ==
  /\ Arrive(CreditsArrival(userHdr))
  /\ UNCHANGED <<cfg, now, ticks, store, hist>>

\* the answer of GET /credits when the MGET replies on store s
CreditsAnswer(r, s) ==
  Answered(r, WithStatus([NoResp EXCEPT !.status = 200],
                         getCreditsStatus(s, r.userId, r.day)))

CreditsRead(r) ==
  /\ r.kind = "credits" /\ r.pc = "status"
  /\ inflight' = Replace(r, CreditsAnswer(r, store))
  /\ UNCHANGED <<cfg, now, ticks, store, hist>>

CreditsReadFail(r) ==
  /\ r.kind = "credits" /\ r.pc = "status"
  /\ inflight' = Replace(r, StoreError(r))
  /\ UNCHANGED <<cfg, now, ticks, store, hist>>

-----------------------------------------------------------------------------
(* The environment: time passes *)

\* The clock advances by step; Redis drops the keys whose expiry has come.
Tick(step) ==
  /\ ticks < MaxTicks
  /\ ticks' = ticks + 1
  /\ now' = now + step
  /\ store' = Unexpired(store, now + step)
  /\ UNCHANGED <<cfg, inflight, hist>>

\* Time passes while requests are being handled
TickShort == Tick(ShortStep)

\* A long time passes.  No request stays in flight for days: a request is
\* answered within the client's and the server's timeouts.
TickLong(step) ==
  /\ inflight = EmptyBag
  /\ Tick(step)

-----------------------------------------------------------------------------
(* The system *)

\* as long as the store is not reachable or not configured nothing is kept, so
\* one such configuration is tried
Configs ==
  {[freeLimit |-> 0, topup |-> 1, devToken |-> <<>>, redis |-> TRUE],
   [freeLimit |-> 1, topup |-> 2, devToken |-> <<115>>, redis |-> TRUE],
   [freeLimit |-> 2, topup |-> 1, devToken |-> <<115>>, redis |-> TRUE],
   [freeLimit |-> 1, topup |-> 1, devToken |-> <<>>, redis |-> FALSE]}

EmptyStore == [k \in {} |-> [val |-> 0, exp |-> NoExpiry]]

NoHistory ==
  /\ freeGrants = [k \in {} |-> 0]
  /\ paidGrants = [u \in UserIds |-> 0]
  /\ creditLog = [tok \in RealTokens |-> <<>>]
  /\ lastFree = [u \in UserIds |-> <<>>]
  /\ lastCredits = [u \in UserIds |-> <<>>]

\* the process has started on an empty store
Init ==
  /\ cfg \in Configs
  /\ now = StartTime
  /\ ticks = 0
  /\ store = EmptyStore
  /\ inflight = EmptyBag
  /\ NoHistory

\* a request that consumes or credits arrives
Request(userHeaders, tokens) ==
  \/ \E hasImage \in BOOLEAN, bypassHdr \in BypassHeaders, userHdr \in userHeaders :
       AnalyzeStart(hasImage, bypassHdr, userHdr)
  \/ \E userHdr \in userHeaders, hasProduct \in BOOLEAN, token \in tokens,
        hasPackage \in BOOLEAN :
       VerifyStart(userHdr, hasProduct, token, hasPackage)

\* a status request arrives
StatusRequest(userHeaders) ==
  \E userHdr \in userHeaders : CreditsStart(userHdr)

\* a request in flight takes its next step
Progress ==
  \/ \E r \in Inflight : AnalyzeEval(r)
  \/ \E r \in Inflight : AnalyzeEvalFail(r)
  \/ \E r \in Inflight : AnalyzeExpire(r)
  \/ \E r \in Inflight : AnalyzeExpireFail(r)
  \/ \E r \in Inflight, outcome \in VisionOutcomes : AnalyzeVisionDone(r, outcome)
  \/ \E r \in Inflight, outcome \in ClientOutcomes : VerifyClient(r, outcome)
  \/ \E r \in Inflight, outcome \in GetOutcomes : VerifyGet(r, outcome)
  \/ \E r \in Inflight, outcome \in ConsumeOutcomes : VerifyConsume(r, outcome)
  \/ \E r \in Inflight : VerifyCredit(r)
  \/ \E r \in Inflight : VerifyReply(r)
  \/ \E r \in Inflight : VerifyStatus(r)
  \/ \E r \in Inflight : VerifyStoreFail(r)

StatusProgress ==
  \/ \E r \in Inflight : CreditsRead(r)
  \/ \E r \in Inflight : CreditsReadFail(r)

\* One day: any requests of two users, up to MaxInflight at a time, while the
\* clock stands still.
Next ==
  \/ CanAccept(MaxInflight) /\ Request(UserHeaders, Tokens)
  \/ CanAccept(MaxInflight) /\ StatusRequest(UserHeaders)
  \/ Progress
  \/ StatusProgress

Spec == Init /\ [][Next]_vars

\* Across midnight: the requests of one user, two at a time, while the clock
\* advances in steps of twelve hours.
NextDays ==
  \/ CanAccept(Cardinality(ClockClients)) /\ Request(ClockUserHeaders, Tokens)
  \/ Progress
  \/ TickShort

SpecDays == Init /\ [][NextDays]_vars

\* Across years: the same requests, one at a time, with a year passing between
\* them.
NextYears ==
  \/ inflight = EmptyBag /\ Request(ClockUserHeaders, Tokens)
  \/ Progress
  \/ \E step \in LongSteps : TickLong(step)

SpecYears == Init /\ [][NextYears]_vars

-----------------------------------------------------------------------------
(* Properties: what is read off a state or a step *)

\* a user's credit balance and the free counter of a user's day, as stored
CreditBalance(s, userId) == NumOrZero(Get(s, creditsKey(userId)))

FreeUsed(s, userId, day) == NumOrZero(Get(s, freeUsedKey(userId, day)))

\* the requests in flight that satisfy Test, counted with their multiplicity
NumInflight(Test(_)) ==
  BagCardinality([r \in {x \in Inflight : Test(x)} |-> inflight[r]])

\* the step is the consume script's run for request r, which goes on as r2
\* holding the script's reply
IsConsumeCall(r, r2) ==
  /\ r.kind = "analyze" /\ r.pc = "eval"
  /\ r2 = [r EXCEPT !.pc = "expire", !.ret = r2.ret]
  /\ inflight' = Replace(r, r2)

\* a property of every run of the consume script: Effect is given the request
\* before the call and the reply
EveryConsumeCall(Effect(_, _)) ==
  \A r \in Inflight : \A r2 \in BagToSet(inflight') :
    IsConsumeCall(r, r2) => Effect(r, r2.ret)

\* a consume call has replied and its request is still in flight
ConsumeReplied(r) == r.kind = "analyze" /\ r.pc = "expire"

\* the crediting script has run for request r, which is still in flight: its
\* reply is on its way, or the status read is under way
CreditRan(r) == r.kind = "verify" /\ r.pc \in {"reply", "status"}

-----------------------------------------------------------------------------
(* The balance and the three branches of the consume script, on one day *)

\* C5: in every reachable state every user's credit balance is at least 0.
CreditsNeverNegative ==
  \A u \in UserIds : CreditBalance(store, u) >= 0

\* a balance that was credited and then charged down to 0
CreditsSpentToZero ==
  \E u \in UserIds :
    /\ Count(paidGrants, u) >= 1
    /\ Exists(store, creditsKey(u)) /\ CreditBalance(store, u) = 0
    /\ \E r \in Inflight : ConsumeReplied(r) /\ r.userId = u /\ r.ret[1] = 0

FreeBranchEffect(r, ret) ==
  LET freeUsed == FreeUsed(store, r.userId, r.day)
      credits  == CreditBalance(store, r.userId)
  IN  /\ freeUsed < cfg.freeLimit =>
           /\ ret = <<1, 1, freeUsed + 1, credits>>
           /\ FreeUsed(store', r.userId, r.day) = freeUsed + 1
           /\ CreditBalance(store', r.userId) = credits
      /\ freeUsed >= cfg.freeLimit =>
           /\ ret[2] = 0
           /\ FreeUsed(store', r.userId, r.day) = freeUsed

\* C6: a consume call that finds the day's free counter below the limit is
\* allowed with usedFree = 1, adds exactly 1 to the counter and leaves the
\* balance as it was, whatever the balance; a call that finds the counter at
\* the limit is not served free.  So from a counter of 0 the first
\* freeLimit calls of a day are free and the later ones are not, and a credit
\* is only charged once the free allowance is used up.
FreeAllowanceFirst == [][EveryConsumeCall(FreeBranchEffect)]_vars

\* a free grant to a user who holds credits
FreeGrantWhileHoldingCredits ==
  \E r \in Inflight :
    /\ ConsumeReplied(r) /\ r.ret[2] = 1 /\ r.ret[4] > 0
    /\ CreditBalance(store, r.userId) = r.ret[4]

CreditBranchEffect(r, ret) ==
  LET freeUsed == FreeUsed(store, r.userId, r.day)
      credits  == CreditBalance(store, r.userId)
  IN  (freeUsed >= cfg.freeLimit /\ credits > 0) =>
        /\ ret = <<1, 0, freeUsed, credits - 1>>
        /\ CreditBalance(store', r.userId) = credits - 1
        /\ CreditBalance(store', r.userId) >= 0
        /\ Get(store', freeUsedKey(r.userId, r.day)) = Get(store, freeUsedKey(r.userId, r.day))

\* C7: a consume call that finds the day's free counter at the limit and a
\* balance above 0 is allowed with usedFree = 0, takes exactly 1 from the
\* balance, which stays at least 0, and leaves the free counter as it was.
CreditChargedPastFreeLimit == [][EveryConsumeCall(CreditBranchEffect)]_vars

\* a call that was paid by a credit
PaidByCredit ==
  \E r \in Inflight :
    /\ ConsumeReplied(r) /\ r.ret[1] = 1 /\ r.ret[2] = 0
    /\ Count(paidGrants, r.userId) >= 1

DenyBranchEffect(r, ret) ==
  LET freeUsed == FreeUsed(store, r.userId, r.day)
      credits  == CreditBalance(store, r.userId)
  IN  (freeUsed >= cfg.freeLimit /\ credits = 0) =>
        /\ ret = <<0, 0, freeUsed, 0>>
        /\ store' = store

\* the step is the expire call (or its failure) and the paywall answer of a
\* denied request
IsPaywallAnswer(r) ==
  /\ ConsumeReplied(r) /\ r.ret[1] = 0
  /\ inflight' = inflight (-) SetToBag({r})

\* C8: a consume call that finds the day's free counter at the limit and a
\* balance of 0 returns allowed = 0 and changes nothing in the store; the
\* handler's expire call and 402 answer that follow leave the values of the
\* free counter and of the balance as they were.
DeniedCallChangesNothing ==
  [][/\ EveryConsumeCall(DenyBranchEffect)
     /\ \A r \in Inflight :
          IsPaywallAnswer(r) =>
            /\ FreeUsed(store', r.userId, r.day) = FreeUsed(store, r.userId, r.day)
            /\ CreditBalance(store', r.userId) = CreditBalance(store, r.userId)]_vars

\* a denied call: its request holds allowed = 0 and the counters are where the
\* call found them
DeniedCall ==
  \E r \in Inflight :
    /\ ConsumeReplied(r) /\ r.ret[1] = 0
    /\ FreeUsed(store, r.userId, r.day) = r.ret[3]
    /\ FreeUsed(store, r.userId, r.day) >= cfg.freeLimit
    /\ CreditBalance(store, r.userId) = 0

-----------------------------------------------------------------------------
(* The free allowance and the status across midnight *)

\* C2: for every user and day, the consume calls that returned usedFree = 1 on
\* that day's counter are never more than the free limit, however the calls
\* interleave.
FreeGrantsWithinLimit ==
  \A k \in DOMAIN freeGrants : freeGrants[k] <= cfg.freeLimit

\* two calls of one user in flight on the same day: one got the last unit of
\* the free allowance, the other was not served free
LastFreeUnitContended ==
  \E r1 \in Inflight, r2 \in Inflight :
    /\ ConsumeReplied(r1) /\ ConsumeReplied(r2)
    /\ r1.userId = r2.userId /\ r1.day = r2.day
    /\ r1.ret[2] = 1 /\ r1.ret[3] = cfg.freeLimit
    /\ r2.ret[2] = 0
    /\ Count(freeGrants, freeUsedKey(r1.userId, r1.day)) = cfg.freeLimit

\* the first reading of the day key and a later one
FirstDay == utcDayKeyAt(StartTime)

FreeByTheDaysOwnGrants(r, ret) ==
  ret[2] = 1 <=> Count(freeGrants, freeUsedKey(r.userId, r.day)) < cfg.freeLimit

\* C9: when the day key changes, with no reset step, every user's free counter
\* of the new day reads 0 and the credit balance is what it was; and a consume
\* call is served free exactly when fewer than the free limit were served free
\* on its own day, whatever was served on the day before.
NewDayNewAllowance ==
  [][/\ utcDayKeyAt(now') # utcDayKey =>
          \A u \in UserIds :
            /\ FreeUsed(store', u, utcDayKeyAt(now')) = 0
            /\ CreditBalance(store', u) = CreditBalance(store, u)
     /\ EveryConsumeCall(FreeByTheDaysOwnGrants)]_vars

\* a user who used the whole free allowance on the first day and again on the
\* next, holding a balance all along
FullAllowanceOnBothDays ==
  \E u \in UserIds :
    /\ cfg.freeLimit >= 1
    /\ utcDayKey # FirstDay
    /\ Count(freeGrants, freeUsedKey(u, FirstDay)) = cfg.freeLimit
    /\ Count(freeGrants, freeUsedKey(u, utcDayKey)) = cfg.freeLimit
    /\ FreeUsed(store, u, FirstDay) = cfg.freeLimit
    /\ FreeUsed(store, u, utcDayKey) = cfg.freeLimit
    /\ CreditBalance(store, u) >= 1

\* what GET /credits would report now is what the last script calls returned
StatusMatches(u, anyDay) ==
  LET st == getCreditsStatus(store, u, utcDayKey)
  IN  /\ (lastFree[u] # <<>> /\ (anyDay \/ lastFree[u][1] = utcDayKey)) =>
           st.used = lastFree[u][2]
      /\ lastCredits[u] # <<>> => st.credits = lastCredits[u][1]

\* C10 as stated: after any consume and crediting calls of a user, the status
\* reports the last returned freeUsedAfter and the last returned creditsAfter.
StatusMatchesLastReturn ==
  \A u \in UserIds : StatusMatches(u, TRUE)

\* C10, amended: the status reports the last returned creditsAfter, and the
\* last returned freeUsedAfter when the last consume call was made for the
\* current day key.
StatusMatchesLastReturnOfToday ==
  \A u \in UserIds : StatusMatches(u, FALSE)

\* consume and crediting calls were made today after the day changed, and left
\* a counter and a balance above 0
StatusAfterCallsOfToday ==
  \E u \in UserIds :
    /\ utcDayKey # FirstDay
    /\ lastFree[u] # <<>> /\ lastFree[u][1] = utcDayKey /\ lastFree[u][2] >= 1
    /\ lastCredits[u] # <<>> /\ lastCredits[u][1] >= 1
    /\ Count(freeGrants, freeUsedKey(u, FirstDay)) >= 1

-----------------------------------------------------------------------------
(* Crediting over the years *)

RECURSIVE SumOver(_, _)
SumOver(f(_), S) ==
  IF S = {} THEN 0
  ELSE LET x == CHOOSE y \in S : TRUE IN f(x) + SumOver(f, S \ {x})

\* how many times the tokens were credited to userId
TimesCredited(userId) ==
  LET n(tok) == Cardinality({i \in 1..Len(creditLog[tok]) : creditLog[tok][i].user = userId})
  IN  SumOver(n, RealTokens)

\* C3 as stated: over any crediting calls with one token, at any spacing in
\* time, the balance is increased for that token at most once.
CreditedAtMostOnceEver ==
  \A tok \in RealTokens : Len(creditLog[tok]) <= 1

\* C3, amended: the balance is increased for a token at most once as long as the
\* token's marker is kept, that is two increases for one token are at least the
\* marker's retention (365 days) apart; and a balance is only ever increased by
\* such a call: it is the top-up amount times the increases, less the credits
\* charged.
CreditedOncePerRetention ==
  /\ \A tok \in RealTokens :
       \A i, j \in 1..Len(creditLog[tok]) :
         i < j => creditLog[tok][j].t - creditLog[tok][i].t >= PurchaseTtl
  /\ \A u \in UserIds :
       CreditBalance(store, u) + Count(paidGrants, u) = cfg.topup * TimesCredited(u)

\* a token that was credited, presented again while its marker was there and
\* turned down, and credited again a year later
CreditedAgainAfterAYear ==
  \E tok \in RealTokens :
    /\ Len(creditLog[tok]) >= 2
    /\ \E r \in Inflight : CreditRan(r) /\ r.token = tok /\ r.ret[1] = 0

-----------------------------------------------------------------------------
(* Bursts: several calls sent before any of them is answered *)

\* who sends them: one user from two devices, and another user
\* the user "a"
BurstUser == <<97>>

BurstHeaders == {<<97>>, <<32, 97, 32>>, <<98>>}

BurstToken == "tokA"

\* The store after BurstUser bought one top-up with BurstToken and used today's
\* free allowance and all credits but one: the marker, the balance of 1 and,
\* unless the free limit is 0, the day's counter at the limit.
LastCreditStore(c) ==
  LET s1 == SetEx(EmptyStore, purchaseKey(BurstToken), 1, PurchaseTtl, StartTime)
      s2 == Set(s1, creditsKey(BurstUser), 1)
  IN  IF c.freeLimit = 0 THEN s2
      ELSE SetEx(s2, freeUsedKey(BurstUser, FirstDay), c.freeLimit, FreeKeyTtl, StartTime)

\* the state the handlers leave after those calls (the crediting, the free
\* requests, then the paid ones), all answered
InitLastCredit ==
  /\ cfg \in {[freeLimit |-> f, topup |-> t, devToken |-> <<>>, redis |-> TRUE] :
               f \in FreeLimits, t \in TopupAmounts}
  /\ now = StartTime
  /\ ticks = 0
  /\ store = LastCreditStore(cfg)
  /\ inflight = EmptyBag
  /\ freeGrants = IF cfg.freeLimit = 0 THEN [k \in {} |-> 0]
                  ELSE (freeUsedKey(BurstUser, FirstDay) :> cfg.freeLimit)
  /\ paidGrants = [u \in UserIds |-> IF u = BurstUser THEN cfg.topup - 1 ELSE 0]
  /\ creditLog = [tok \in RealTokens |->
                    IF tok = BurstToken THEN <<[t |-> StartTime, user |-> BurstUser]>>
                    ELSE <<>>]
  /\ lastFree = [u \in UserIds |->
                   IF u # BurstUser \/ (cfg.freeLimit = 0 /\ cfg.topup = 1) THEN <<>>
                   ELSE <<FirstDay, cfg.freeLimit>>]
  /\ lastCredits = [u \in UserIds |-> IF u = BurstUser THEN <<1>> ELSE <<>>]

\* up to NumCalls classification requests arrive and their consume calls run,
\* in any order; none is answered yet
NextLastCredit ==
  \/ CanAccept(NumCalls) /\ \E userHdr \in BurstHeaders :
                              AnalyzeStart(TRUE, <<>>, userHdr)
  \/ \E r \in Inflight : AnalyzeEval(r)

SpecLastCredit == InitLastCredit /\ [][NextLastCredit]_vars

\* C1: for a user whose free allowance of today is used up and whose balance is
\* 1, however the consume calls of a burst interleave, exactly one of those
\* that ran was allowed and the balance is 0 (and 1 as long as none ran).
LastCreditSpentOnce ==
  LET Ran(r) == ConsumeReplied(r) /\ r.userId = BurstUser
      Allowed(r) == Ran(r) /\ r.ret[1] = 1
  IN  IF NumInflight(Ran) = 0 THEN CreditBalance(store, BurstUser) = 1
      ELSE NumInflight(Allowed) = 1 /\ CreditBalance(store, BurstUser) = 0

\* two calls of the user ran while both requests were in flight: one got the
\* credit, the other the paywall
LastCreditContended ==
  \E r1 \in Inflight, r2 \in Inflight :
    /\ ConsumeReplied(r1) /\ r1.userId = BurstUser /\ r1.ret = <<1, 0, cfg.freeLimit, 0>>
    /\ ConsumeReplied(r2) /\ r2.userId = BurstUser /\ r2.ret = <<0, 0, cfg.freeLimit, 0>>

\* up to NumCalls verifications of one token arrive, their billing calls
\* succeed and their crediting calls run, in any order; none is answered yet
NextSameToken ==
  \/ CanAccept(NumCalls) /\ \E userHdr \in BurstHeaders :
                              VerifyStart(userHdr, TRUE, BurstToken, TRUE)
  \/ \E r \in Inflight : VerifyClient(r, "client")
  \/ \E r \in Inflight : VerifyGet(r, "purchased")
  \/ \E r \in Inflight : VerifyConsume(r, "consumed")
  \/ \E r \in Inflight : VerifyCredit(r)
  \/ \E r \in Inflight : VerifyReply(r)

SpecSameToken == Init /\ [][NextSameToken]_vars

\* C4: when crediting calls with one token that was never seen run in a burst,
\* in any order, exactly one of those that ran returned didAdd = 1 and the
\* others returned didAdd = 0; the token is credited once, and the balances of
\* all users together grew by one top-up.
SameTokenCreditedOnce ==
  LET Ran(r) == CreditRan(r) /\ r.token = BurstToken
      Added(r) == Ran(r) /\ r.ret[1] = 1
      Refused(r) == Ran(r) /\ r.ret[1] = 0
      balance(u) == CreditBalance(store, u)
      added == IF NumInflight(Ran) = 0 THEN 0 ELSE 1
  IN  /\ NumInflight(Added) = added
      /\ NumInflight(Refused) = NumInflight(Ran) - added
      /\ Len(creditLog[BurstToken]) = added
      /\ SumOver(balance, UserIds) = added * cfg.topup

\* calls of two users with the token ran while both were in flight: one added,
\* the other did not
SameTokenContended ==
  \E r1 \in Inflight, r2 \in Inflight :
    /\ CreditRan(r1) /\ r1.ret[1] = 1
    /\ CreditRan(r2) /\ r2.ret[1] = 0
    /\ r1.token = r2.token /\ r1.userId # r2.userId

-----------------------------------------------------------------------------
(* The gate and the store's failures *)

\* the inputs of POST /analyze and POST /verify-purchase that are tried
AnalyzeInputs == BOOLEAN \X BypassHeaders \X UserHeaders

VerifyInputs == UserHeaders \X BOOLEAN \X Tokens \X BOOLEAN

\* answer a refuses the classification: an error, no data, no vision call
Refused(a) ==
  /\ a.pc = "done" /\ ~a.vision
  /\ a.resp.status >= 400 /\ a.resp.error # "" /\ a.resp.data = -1

AwaitsConsume(r) == r.kind = "analyze" /\ r.pc = "eval"

AwaitsCredit(r) == r.kind = "verify" /\ r.pc = "credit"

\* the step ends request r with an answer
IsAnswerTo(r) == inflight' = inflight (-) SetToBag({r})

\* C11: without a store client every /analyze request is refused on arrival,
\* and a request whose consume call fails is refused by the handler's catch:
\* an error answer, no vision call; the failing step changes no counter.
NoStoreNoClassification ==
  /\ [](/\ ~cfg.redis =>
             \A i \in AnalyzeInputs :
               Refused(AnalyzeArrival(i[1], i[2], i[3]))
        /\ \A r \in Inflight :
             AwaitsConsume(r) => ~r.bypass /\ ~r.vision /\ Refused(StoreError(r)))
  /\ [][\A r \in Inflight :
          (AwaitsConsume(r) /\ IsAnswerTo(r)) => store' = store /\ hist' = hist]_vars

\* a request of a user with free quota left is waiting for its consume call:
\* the call may fail here
ConsumeCallPending ==
  \E r \in Inflight :
    /\ AwaitsConsume(r) /\ ~r.bypass
    /\ FreeUsed(store, r.userId, r.day) < cfg.freeLimit
    /\ Refused(StoreError(r))

\* the token was credited exactly when its marker is there
MarkerIffCredited(tok) ==
  Exists(store, purchaseKey(tok)) <=> Len(creditLog[tok]) = 1

\* C12: a crediting call that fails grants nothing and leaves no marker, and
\* the answer is the catch's 500, not ok: true; a token without a marker was
\* never credited and the next crediting call with it adds the top-up once.
FailedCreditingIsRetryable ==
  /\ [](/\ \A r \in Inflight :
             AwaitsCredit(r) => /\ StoreError(r).resp.status = 500
                                /\ StoreError(r).resp.ok # 1
        /\ \A tok \in RealTokens :
             /\ Len(creditLog[tok]) <= 1
             /\ MarkerIffCredited(tok)
             /\ ~Exists(store, purchaseKey(tok)) =>
                  \A u \in UserIds :
                    LET out == CreditIfNewPurchase(store, tok, u, now)
                    IN  /\ out.ret = <<1, CreditBalance(store, u) + cfg.topup>>
                        /\ Exists(out.store, purchaseKey(tok))
                        /\ CreditBalance(out.store, u) = CreditBalance(store, u) + cfg.topup)
  /\ [][\A r \in Inflight :
          (AwaitsCredit(r) /\ IsAnswerTo(r)) => store' = store /\ hist' = hist]_vars

\* two verifications of one token that has no marker are waiting for their
\* crediting calls: the first call may fail here, the other is the retry
CreditingCallAndRetryPending ==
  \E r1 \in Inflight :
    /\ AwaitsCredit(r1) /\ inflight[r1] = 2
    /\ ~Exists(store, purchaseKey(r1.token))
    /\ creditLog[r1.token] = <<>>

\* the requests whose billing calls are under way
AwaitsBilling(r) == r.kind = "verify" /\ r.pc \in {"client", "get", "consume"}

\* the step is a billing call of request r settling: r is answered, or goes on
\* to its next call
IsBillingStep(r) ==
  /\ AwaitsBilling(r)
  /\ \/ IsAnswerTo(r)
     \/ \E r2 \in BagToSet(inflight') :
          /\ r2 = [r EXCEPT !.pc = r2.pc, !.billing = r2.billing]
          /\ r2.pc # r.pc
          /\ inflight' = Replace(r, r2)

\* C13: the crediting script only runs for a request whose purchase the billing
\* collaborator reported as purchased (purchaseState 0) and consumed; a request
\* whose purchase is not completed, or whose purchases.products.get threw, is
\* answered without going on to the consume call, a request on arrival has made
\* no store call, and the markers and balances only change in the crediting
\* step of a request that passed the billing calls.
CreditOnlyAfterBilling ==
  /\ [](/\ \A r \in Inflight :
             /\ (r.kind = "verify" /\ r.pc \in {"credit", "reply", "status"}) =>
                  r.billing = "consumed"
             /\ (r.kind = "verify" /\ r.pc = "get") =>
                  \A outcome \in GetOutcomes :
                    LET a == AfterGet(r, outcome)
                    IN  IF outcome = "purchased"
                        THEN a.pc = "consume" /\ a.billing = "verified"
                        ELSE a.pc = "done" /\ a.resp.ok # 1
        /\ \A i \in VerifyInputs :
             VerifyArrival(i[1], i[2], i[3], i[4]).pc \in {"done", "client"})
  /\ [][/\ \A r \in Inflight :
             IsBillingStep(r) => store' = store /\ hist' = hist
        /\ \A tok \in RealTokens :
             (\/ Get(store', purchaseKey(tok)) # Get(store, purchaseKey(tok))
              \/ creditLog'[tok] # creditLog[tok]) =>
               \E r \in Inflight :
                 AwaitsCredit(r) /\ r.token = tok /\ r.billing = "consumed"]_vars

\* a request credited its token after the three billing calls, while another
\* still waits for purchases.products.get
CreditedAfterBilling ==
  \E r \in Inflight, r2 \in Inflight :
    /\ CreditRan(r) /\ r.billing = "consumed"
    /\ r.ret[1] = 1 /\ Exists(store, purchaseKey(r.token))
    /\ r2.kind = "verify" /\ r2.pc = "get"

\* C14: only a request whose consume call returned allowed = 1 goes on to the
\* vision call, after the reply; a request that was denied is answered 402
\* without it, and a request that did not pass the gate yet has not made it.
VisionOnlyAfterAllowed ==
  /\ \A r \in Inflight :
       r.vision => /\ r.kind = "analyze" /\ r.pc = "vision"
                   /\ r.bypass \/ r.ret[1] = 1
  /\ \A i \in AnalyzeInputs :
       LET a == AnalyzeArrival(i[1], i[2], i[3])
       IN  a.vision => a.bypass
  /\ \A r \in Inflight :
       ConsumeReplied(r) =>
         LET a == AfterExpire(r)
         IN  /\ a.vision <=> r.ret[1] = 1
             /\ r.ret[1] = 0 => a.resp.status = 402 /\ a.resp.data = -1

\* an allowed request of a user waits for the vision call while a denied
\* request of the same user is past the gate
AllowedAndDeniedPastGate ==
  \E r1 \in Inflight, r2 \in Inflight :
    /\ r1.kind = "analyze" /\ r1.pc = "vision" /\ ~r1.bypass /\ r1.ret[1] = 1
    /\ ConsumeReplied(r2) /\ r1.userId = r2.userId
    /\ r2.ret[1] = 0 /\ ~AfterExpire(r2).vision

-----
(* The free counter while its day lasts and after *)

\* Across the counters' retention: requests one at a time, the clock advancing
\* by twelve hours, also under a request, or by the retention of three days.
NextRetention ==
  \/ inflight = EmptyBag /\ Request(ClockUserHeaders, Tokens)
  \/ Progress
  \/ TickShort
  \/ TickLong(FreeKeyTtl)

SpecRetention == Init /\ [][NextRetention]_vars

IsFreeKey(k) == k[1] = "tp:free_used:"

\* C15: every stored free counter is at least 0, and as long as the day key
\* stays the same the counter of that day does not go down for any user,
\* whether its expiry is armed again, was never armed, or comes.
FreeCounterGrowsWithinDay ==
  /\ [](\A k \in DOMAIN store : IsFreeKey(k) => store[k].val >= 0)
  /\ [][utcDayKeyAt(now') = utcDayKey =>
          \A u \in UserIds :
            FreeUsed(store', u, utcDayKey) >= FreeUsed(store, u, utcDayKey)]_vars

\* a counter of an earlier day has lapsed, and today's counter was used and its
\* expiry armed
CounterKeptTodayLapsedBefore ==
  \E u \in UserIds :
    /\ utcDayKey # FirstDay
    /\ Count(freeGrants, freeUsedKey(u, FirstDay)) >= 1
    /\ ~Exists(store, freeUsedKey(u, FirstDay))
    /\ Exists(store, freeUsedKey(u, utcDayKey))
    /\ store[freeUsedKey(u, utcDayKey)].exp # NoExpiry
    /\ FreeUsed(store, u, utcDayKey) >= 1

-----------------------------------------------------------------------------
(* The status read *)

\* The store a process finds when it starts after an earlier run, which may
\* have had another FREE_LIMIT_PER_DAY: BurstUser's counter of today and
\* balance, as that run left them.
FoundStore(used, credits) ==
  LET s0 == EmptyStore
      s1 == IF used = 0 THEN s0
            ELSE SetEx(s0, freeUsedKey(BurstUser, FirstDay), used, FreeKeyTtl, StartTime)
  IN  IF credits = 0 THEN s1 ELSE Set(s1, creditsKey(BurstUser), credits)

InitRestarted ==
  /\ cfg \in {[freeLimit |-> f, topup |-> t, devToken |-> <<>>, redis |-> TRUE] :
               f \in FreeLimits, t \in TopupAmounts}
  /\ now = StartTime
  /\ ticks = 0
  /\ \E used \in 0..MaxStored, credits \in 0..MaxStored :
       store = FoundStore(used, credits)
  /\ inflight = EmptyBag
  /\ NoHistory

\* only status requests arrive
NextStatus ==
  \/ CanAccept(MaxInflight) /\ StatusRequest(UserHeaders)
  \/ StatusProgress

SpecStatus == InitRestarted /\ [][NextStatus]_vars

AwaitsStatus(r) == r.kind = "credits" /\ r.pc = "status"

RemainingIsClamped(st) ==
  /\ st.remaining >= 0
  /\ st.used <= st.limit => st.remaining = st.limit - st.used
  /\ st.used > st.limit => st.remaining = 0

\* C16: a status read changes no key of the store, and what it reports has
\* used = the stored counter, credits = the stored balance and remaining =
\* max(0, limit - used): 0, not a negative number, when the stored counter is
\* above the limit.
StatusReadIsPure ==
  /\ [](/\ \A u \in UserIds :
             LET st == getCreditsStatus(store, u, utcDayKey)
             IN  /\ RemainingIsClamped(st)
                 /\ st.limit = cfg.freeLimit
                 /\ st.used = FreeUsed(store, u, utcDayKey)
                 /\ st.credits = CreditBalance(store, u)
        /\ \A r \in Inflight :
             AwaitsStatus(r) =>
               LET a == CreditsAnswer(r, store).resp
               IN  /\ a.status = 200 /\ RemainingIsClamped(a)
                   /\ a.used = FreeUsed(store, r.userId, r.day))
  /\ [][store' = store]_vars

\* a status read is under way for a user whose stored counter is above the limit
StatusReadAboveLimit ==
  \E r \in Inflight :
    /\ AwaitsStatus(r)
    /\ FreeUsed(store, r.userId, r.day) > cfg.freeLimit
    /\ CreditsAnswer(r, store).resp.remaining = 0

-----------------------------------------------------------------------------
(* Answers that must be told apart, the bypass, and the expire call *)

\* C17: /analyze answers an exhausted quota with 402 PAYWALL, and a store
\* failure (no store client, or a consume call that rejects) with another
\* status and another error code.
PaywallIsNotStoreFailure ==
  /\ \A r \in Inflight :
       (ConsumeReplied(r) /\ r.ret[1] = 0) =>
         LET deny == AfterExpire(r).resp
         IN  deny.status = 402 /\ deny.error = "PAYWALL"
  /\ \A r \in Inflight :
       AwaitsConsume(r) =>
         LET fail == StoreError(r).resp
         IN  fail.status # 402 /\ fail.error # "PAYWALL" /\ fail.error # ""
  /\ ~cfg.redis =>
       \A i \in AnalyzeInputs :
         LET fail == AnalyzeArrival(i[1], i[2], i[3]).resp
         IN  fail.status # 402 /\ fail.error # "PAYWALL" /\ fail.error # ""

\* a denied request and a request whose consume call may fail, side by side
DeniedBesidePendingCall ==
  \E r1 \in Inflight, r2 \in Inflight :
    /\ ConsumeReplied(r1) /\ r1.ret[1] = 0
    /\ AfterExpire(r1).resp.status = 402
    /\ AwaitsConsume(r2) /\ StoreError(r2).resp.status = 500

\* the step is the crediting script's run for request r, which goes on as r2
\* holding the script's reply
IsCreditCall(r, r2) ==
  /\ AwaitsCredit(r)
  /\ r2 = [r EXCEPT !.pc = "reply", !.ret = r2.ret]
  /\ inflight' = Replace(r, r2)

\* the answers a verification can get once its crediting call replied and its
\* status read is under way: the answer made of the reply and the status
\* (VerifyStatus), and the catch's answer when the store cannot be reached for
\* the MGET (VerifyStoreFail)
StatusReadAnswers(r) == {VerifyAnswer(r, store).resp, StoreError(r).resp}

\* C18 as stated: a crediting call for a token that was credited before
\* returns didAdd = 0 with the caller's balance and changes nothing, and every
\* answer the call can get from there is 200, ok: true, didAdd: false with that
\* balance as creditsAfter, never a failure status.
AlreadyCreditedNeverFails ==
  /\ [](\A r \in Inflight :
          (r.kind = "verify" /\ r.pc = "status" /\ r.ret[1] = 0) =>
            \A a \in StatusReadAnswers(r) :
              /\ a.status = 200 /\ a.ok = 1 /\ a.error = ""
              /\ a.didAdd = 0 /\ a.creditsAfter = r.ret[2])
  /\ [][\A r \in Inflight : \A r2 \in BagToSet(inflight') :
          (IsCreditCall(r, r2) /\ creditLog[r.token] # <<>>) =>
            /\ r2.ret = <<0, CreditBalance(store, r.userId)>>
            /\ store' = store]_vars

\* C18, amended: a crediting call for a token whose marker is there (the token
\* was credited within the marker's retention of 365 days) returns didAdd = 0
\* with the caller's balance and changes nothing, and when the status read that
\* follows succeeds the handler answers 200, ok: true, didAdd: false with that
\* balance as creditsAfter; when the status read fails the catch answers 500,
\* and a crediting call that finds no marker, also that of a token whose marker
\* has lapsed, returns didAdd = 1.
AlreadyCreditedIsSuccess ==
  /\ [](\A r \in Inflight :
          (r.kind = "verify" /\ r.pc = "status" /\ r.ret[1] = 0) =>
            LET a == VerifyAnswer(r, store).resp
            IN  /\ a.status = 200 /\ a.ok = 1 /\ a.error = ""
                /\ a.didAdd = 0 /\ a.creditsAfter = r.ret[2]
                /\ \A a2 \in StatusReadAnswers(r) \ {a} :
                     a2.status = 500 /\ a2.ok # 1 /\ a2.error # "")
  /\ [][\A r \in Inflight : \A r2 \in BagToSet(inflight') :
          IsCreditCall(r, r2) =>
            IF Exists(store, purchaseKey(r.token))
            THEN /\ r2.ret = <<0, CreditBalance(store, r.userId)>>
                 /\ store' = store
            ELSE r2.ret = <<1, CreditBalance(store, r.userId) + cfg.topup>>]_vars

\* a verification of a token that was credited before got didAdd = 0, and its
\* status read is under way
CreditedTokenPresentedAgain ==
  \E r \in Inflight :
    /\ r.kind = "verify" /\ r.pc = "status" /\ r.ret[1] = 0
    /\ Len(creditLog[r.token]) >= 1
    /\ Exists(store, purchaseKey(r.token))
    /\ VerifyAnswer(r, store).resp.ok = 1

\* C19: without a configured secret no request is a bypass; with one, a request
\* whose header is the secret is a bypass and goes to the vision call without
\* awaiting the store: a bypass request in flight only waits for the vision
\* call, the step that answers it changes nothing in the store, and no key of
\* the bypass user is ever written.
BypassSkipsLedger ==
  /\ [](/\ \A i \in AnalyzeInputs :
             LET a == AnalyzeArrival(i[1], i[2], i[3])
             IN  /\ a.bypass => cfg.devToken # <<>>
                 /\ (i[1] /\ cfg.redis /\ cfg.devToken # <<>>
                          /\ Trim(i[2]) = cfg.devToken) =>
                      a.pc = "vision" /\ a.bypass /\ a.ret = <<>>
        /\ \A r \in Inflight :
             /\ r.bypass => r.kind = "analyze" /\ r.pc = "vision" /\ r.ret = <<>>
             /\ r.bypass <=> r.userId = DevBypassUser
        /\ \A u \in UserIds \cup {DevBypassUser} :
             \A k \in {creditsKey(u), freeUsedKey(u, utcDayKey)} :
               k \in DOMAIN store => u # DevBypassUser)
  /\ [][\A r \in Inflight :
          (r.bypass /\ IsAnswerTo(r)) => store' = store /\ hist' = hist]_vars

\* a bypass request waits for the vision call while users' counters are in the
\* store
BypassAnsweredBesideCounters ==
  /\ cfg.devToken # <<>>
  /\ \E u \in UserIds : FreeUsed(store, u, utcDayKey) >= 1
  /\ \E r \in Inflight :
       /\ r.bypass /\ r.pc = "vision" /\ r.vision
       /\ AnalyzeAnswer(r, "ok").resp.status = 200

SameValues(s1, s2) ==
  /\ DOMAIN s1 = DOMAIN s2
  /\ \A k \in DOMAIN s1 : s1[k].val = s2[k].val

\* the step is the expire call of request r settling: r is answered, or goes
\* on to the vision call
IsExpireStep(r) ==
  /\ ConsumeReplied(r)
  /\ IsAnswerTo(r) \/ inflight' = Replace(r, AwaitVision(r))

\* C20: the step after the consume reply, whether the expire call succeeds or
\* fails, leaves every counter and balance at its value and counts no further
\* grant, and what follows is decided by the reply alone: the 402 answer when
\* allowed = 0, and the vision call when allowed = 1.
ExpireFailureKeepsDecision ==
  /\ [](\A r \in Inflight :
          ConsumeReplied(r) =>
            /\ r.ret[1] = 1 => AfterExpire(r) = AwaitVision(r)
            /\ r.ret[1] = 0 => AfterExpire(r).resp.status = 402)
  /\ [][\A r \in Inflight :
          IsExpireStep(r) =>
            /\ SameValues(store, store') /\ hist' = hist
            /\ inflight' = Replace(r, AfterExpire(r))]_vars

\* a free counter that was used and whose expiry was never armed: the expire
\* call failed and the request was answered
CounterLeftWithoutExpiry ==
  /\ inflight = EmptyBag
  /\ \E k \in DOMAIN store :
       IsFreeKey(k) /\ store[k].exp = NoExpiry /\ store[k].val >= 1

-----------------------------------------------------------------------------
(* The day key around midnight *)

\* the clock's first readings tried: one second before the midnights that
\* begin 1970-01-02, 2000-03-01, 2024-01-01, 2024-02-29, 2024-03-01,
\* 2024-11-10, 2025-03-01 and 2036-03-01 (readings stay below 2^31 seconds)
ClockStarts ==
  {(d * SecondsPerDay) - 1 : d \in {1, 11017, 19723, 19782, 19783, 20037, 20148, 24166}}

\* and how far it jumps: a second, a day less a second, a day, 31 days
ClockSteps == {1, SecondsPerDay - 1, SecondsPerDay, 31 * SecondsPerDay}

\* instants compared with the clock's reading
ClockOffsets == {0, 1, 2, SecondsPerDay - 1, SecondsPerDay, SecondsPerDay + 1}

InitClock ==
  /\ cfg \in {c \in Configs : c.freeLimit = 1}
  /\ now \in ClockStarts
  /\ ticks = 0
  /\ store = EmptyStore
  /\ inflight = EmptyBag
  /\ NoHistory

\* status reads of one user, each taking the day key at its arrival, while the
\* clock advances
NextClock ==
  \/ CanAccept(MaxInflight) /\ StatusRequest(ClockUserHeaders)
  \/ StatusProgress
  \/ \E step \in ClockSteps : Tick(step)

SpecClock == InitClock /\ [][NextClock]_vars

\* the UTC calendar day of instant t, counted from 1970-01-01
UTCDay(t) == t \div SecondsPerDay

\* C21: two instants have the same day key exactly when they lie in the same
\* UTC calendar day, so the key changes at UTC midnight and nowhere else; this
\* holds for the instants around the clock's reading and for every two
\* successive readings of the clock.
DayKeyFollowsUTCDay ==
  /\ [](\A d1 \in ClockOffsets, d2 \in ClockOffsets :
          (utcDayKeyAt(now + d1) = utcDayKeyAt(now + d2))
            <=> (UTCDay(now + d1) = UTCDay(now + d2)))
  /\ [][(utcDayKeyAt(now') = utcDayKeyAt(now)) <=> (UTCDay(now') = UTCDay(now))]_vars

\* the last second of 29 February 2024: a status read that arrived on the 28th
\* is still in flight, and the next second begins 1 March
LeapDayEndsAtMidnight ==
  /\ now = (19783 * SecondsPerDay) - 1
  /\ utcDayKey = <<"2", "0", "2", "4", "-", "0", "2", "-", "2", "9">>
  /\ utcDayKeyAt(now + 1) = <<"2", "0", "2", "4", "-", "0", "3", "-", "0", "1">>
  /\ \E r \in Inflight :
       r.day = <<"2", "0", "2", "4", "-", "0", "2", "-", "2", "8">>

-----------------------------------------------------------------------------
(* The marker and the credits it stands for *)

\* the token's last crediting, when it is not older than the marker's retention
CreditedWithinRetention(tok) ==
  /\ creditLog[tok] # <<>>
  /\ creditLog[tok][Len(creditLog[tok])].t + PurchaseTtl > now

\* C22: a token's marker is in the store exactly when the token was credited
\* within the marker's retention, and the marker appears in the very step that
\* increases the crediting user's balance by the top-up amount: no step writes
\* the marker without the increase, and none increases a balance without
\* writing the marker.
MarkerWrittenWithCredits ==
  /\ [](\A tok \in RealTokens :
          Exists(store, purchaseKey(tok)) <=> CreditedWithinRetention(tok))
  /\ [][/\ \A tok \in RealTokens :
             (~Exists(store, purchaseKey(tok)) /\ Exists(store', purchaseKey(tok)))
               <=> \E u \in UserIds :
                     /\ creditLog' = [creditLog EXCEPT
                                        ![tok] = Append(@, [t |-> now, user |-> u])]
                     /\ CreditBalance(store', u) = CreditBalance(store, u) + cfg.topup
        /\ \A u \in UserIds :
             CreditBalance(store', u) > CreditBalance(store, u) =>
               \E tok \in RealTokens :
                 ~Exists(store, purchaseKey(tok)) /\ Exists(store', purchaseKey(tok))]_vars

\* the marker lapsed, the token was credited again and the marker written
\* again: it stands beside both increases
MarkerRewrittenWithSecondIncrease ==
  \E tok \in RealTokens, u \in UserIds :
    /\ Exists(store, purchaseKey(tok))
    /\ Len(creditLog[tok]) = 2
    /\ CreditBalance(store, u) + Count(paidGrants, u) = 2 * cfg.topup

-----------------------------------------------------------------------------
(* What a consumed unit is worth when the classification fails *)

VisionFailures == VisionOutcomes \ {"ok"}

AwaitsVision(r) == r.kind = "analyze" /\ r.pc = "vision"

\* C23: a request that was allowed and whose vision call fails is answered 500
\* after the call was made, and the step that answers it leaves the user's free
\* counter and credit balance where the consume script left them; every free
\* unit ever granted on the day stays counted.
ConsumedUnitNotRefunded ==
  /\ [](/\ \A r \in Inflight, outcome \in VisionFailures :
             (AwaitsVision(r) /\ ~r.bypass) =>
               LET a == AnalyzeAnswer(r, outcome)
               IN  /\ r.ret[1] = 1 /\ a.vision
                   /\ a.resp.status = 500 /\ a.resp.credits = -1
        /\ \A u \in UserIds :
             FreeUsed(store, u, utcDayKey)
               = Count(freeGrants, freeUsedKey(u, utcDayKey)))
  /\ [][\A r \in Inflight :
          (AwaitsVision(r) /\ ~r.bypass /\ IsAnswerTo(r)) =>
            /\ FreeUsed(store', r.userId, r.day) = FreeUsed(store, r.userId, r.day)
            /\ CreditBalance(store', r.userId) = CreditBalance(store, r.userId)]_vars

\* a request paid by the free allowance and one paid by a credit, both waiting
\* for the vision call, which may fail for either
FreeAndPaidBeforeVision ==
  \E r1 \in Inflight, r2 \in Inflight :
    /\ AwaitsVision(r1) /\ ~r1.bypass /\ r1.ret[1] = 1 /\ r1.ret[2] = 1
    /\ AwaitsVision(r2) /\ ~r2.bypass /\ r2.ret[1] = 1 /\ r2.ret[2] = 0
    /\ r1.userId = r2.userId
    /\ AnalyzeAnswer(r1, "error").resp.status = 500
    /\ AnalyzeAnswer(r2, "no_output").resp.status = 500
    /\ CreditBalance(store, r2.userId) = r2.ret[4]

-----
(* The variant of src/index.js: one counter per user and day, no credits in
   the gate.  checkAndConsumeQuota increments the counter with INCR, arms its
   expiry when the reply is 1, and allows the request when the reply is at
   most the limit.  A request of this variant is a record of kind "quota";
   ret holds <<ttl>> and, after the INCR, <<ttl, used>>. *)

\* the string "anonymous"
Anonymous == <<97, 110, 111, 110, 121, 109, 111, 117, 115>>

\* getUserId of index.js: the trimmed header, or "anonymous"
getUserIdOrAnonymous(userHdr) ==
  IF userHdr = <<>> THEN Anonymous
  ELSE IF Trim(userHdr) = <<>> THEN Anonymous ELSE Trim(userHdr)

devBypassOk(bypassHdr) ==
  IF cfg.devToken = <<>> THEN FALSE
  ELSE IF bypassHdr = <<>> THEN FALSE
  ELSE bypassHdr = cfg.devToken

todayKeyUTC == utcDayKeyAt(now)

\* Math.max(60, Math.floor(diffMs / 1000)), to the next UTC midnight
secondsUntilTomorrowUTC ==
  LET tomorrow == ((now \div SecondsPerDay) + 1) * SecondsPerDay
  IN  Max(60, tomorrow - now)

quotaKey(userId, day) == <<"quota:", userId, ":", day>>

\* what checkAndConsumeQuota returns without a store client
quotaWithoutStore ==
  [ok |-> TRUE, used |-> 0, remaining |-> cfg.freeLimit, limit |-> cfg.freeLimit]

\* and what it returns on INCR's reply
quotaOf(used) ==
  [ok |-> used <= cfg.freeLimit, used |-> used,
   remaining |-> Max(0, cfg.freeLimit - used), limit |-> cfg.freeLimit]

WithQuota(resp, quota) ==
  [resp EXCEPT !.ok = IF quota.ok THEN 1 ELSE 0, !.used = quota.used,
               !.remaining = quota.remaining, !.limit = quota.limit]

\* the catch of /analyze
ServerError(r) == Answered(r, ErrorResp(500, "SERVER_ERROR"))

\* /analyze of index.js after the gate: 403, or the vision request is sent
\* and the handler waits for its reply
AfterQuota(r, quota) ==
  IF ~quota.ok
  THEN Answered(r, WithQuota(ErrorResp(403, "FREE_LIMIT_REACHED"), quota))
  ELSE [r EXCEPT !.pc = "vision", !.vision = TRUE]

\* from the request's arrival to the INCR being sent, or to the vision request
\* being sent when the gate makes no store call
QuotaArrival(hasImage, bypassHdr, userHdr) ==
  LET userId == getUserIdOrAnonymous(userHdr)
      bypass == devBypassOk(bypassHdr)
      r0 == NewReq("quota")
      r1 == [r0 EXCEPT !.userId = userId, !.bypass = bypass]
  IN  IF ~hasImage THEN Answered(r0, ErrorResp(400, "BAD_REQUEST"))
      ELSE IF bypass THEN AfterQuota(r1, quotaWithoutStore)
      ELSE IF ~cfg.redis THEN AfterQuota(r1, quotaWithoutStore)
      ELSE [r1 EXCEPT !.pc = "incr", !.day = todayKeyUTC,
                      !.ret = <<secondsUntilTomorrowUTC>>]

QuotaStart(hasImage, bypassHdr, userHdr) ==
  /\ Arrive(QuotaArrival(hasImage, bypassHdr, userHdr))
  /\ UNCHANGED <<cfg, now, ticks, store, hist>>

\* a call of checkAndConsumeQuota returned quota
NoteQuota(r, quota) ==
  /\ freeGrants' = IF quota.ok THEN Bump(freeGrants, quotaKey(r.userId, r.day))
                   ELSE freeGrants
  /\ UNCHANGED <<paidGrants, creditLog, lastFree, lastCredits>>

\* redis.incr(key) replies
QuotaIncr(r) ==
  /\ r.kind = "quota" /\ r.pc = "incr"
  /\ LET key == quotaKey(r.userId, r.day)
         s1 == IncrBy(store, key, 1)
         used == s1[key].val
         r2 == [r EXCEPT !.ret = <<r.ret[1], used>>]
     IN  /\ store' = s1
         /\ IF used = 1
            THEN /\ inflight' = Replace(r, [r2 EXCEPT !.pc = "expire"])
                 /\ UNCHANGED hist
            ELSE /\ inflight' = Replace(r, AfterQuota(r2, quotaOf(used)))
                 /\ NoteQuota(r, quotaOf(used))
  /\ UNCHANGED <<cfg, now, ticks>>

\* redis.expire(key, ttl) replies
QuotaExpire(r) ==
  /\ r.kind = "quota" /\ r.pc = "expire"
  /\ store' = Expire(store, quotaKey(r.userId, r.day), r.ret[1], now)
  /\ inflight' = Replace(r, AfterQuota(r, quotaOf(r.ret[2])))
  /\ NoteQuota(r, quotaOf(r.ret[2]))
  /\ UNCHANGED <<cfg, now, ticks>>

\* either call rejects: checkAndConsumeQuota throws into the handler's catch
QuotaStoreFail(r) ==
  /\ r.kind = "quota" /\ r.pc \in {"incr", "expire"}
  /\ inflight' = Replace(r, ServerError(r))
  /\ UNCHANGED <<cfg, now, ticks, store, hist>>

\* the quota the handler holds while it waits for the vision call
quotaHeld(r) ==
  IF r.ret = <<>> THEN quotaWithoutStore ELSE quotaOf(r.ret[2])

\* the answer of /analyze of index.js once the vision call has ended
QuotaAnswer(r, outcome) ==
  IF outcome # "ok"
  THEN Answered(r, ErrorResp(500, "SERVER_ERROR"))
  ELSE Answered(r, WithQuota([NoResp EXCEPT !.status = 200, !.data = 1],
                             quotaHeld(r)))

\* the vision call ends: it throws, it brings no output text, or it brings
\* the classification
QuotaVision(r, outcome) ==
  /\ r.kind = "quota" /\ r.pc = "vision"
  /\ inflight' = Replace(r, QuotaAnswer(r, outcome))
  /\ UNCHANGED <<cfg, now, ticks, store, hist>>

\* the requests of one user, from a device that sends no x-user-id and from
\* one that sends "anonymous"
QuotaHeaders == {<<>>, Anonymous}

QuotaInputs == BOOLEAN \X BypassHeaders \X QuotaHeaders

\* the INCRs that are under way for key, and those that have replied
QuotaPending(key) ==
  NumInflight(LAMBDA r : r.kind = "quota" /\ r.pc = "incr"
                         /\ quotaKey(r.userId, r.day) = key)

\* a request is taken while its INCR would bring the counter to at most
\* MaxStored, and MaxInflight requests at a time
QuotaCanAccept(userHdr) ==
  LET key == quotaKey(getUserIdOrAnonymous(userHdr), todayKeyUTC)
  IN  /\ CanAccept(MaxInflight)
      /\ NumOrZero(Get(store, key)) + QuotaPending(key) < MaxStored

NextQuota ==
  \/ \E i \in QuotaInputs : QuotaCanAccept(i[3]) /\ QuotaStart(i[1], i[2], i[3])
  \/ \E r \in Inflight : QuotaIncr(r)
  \/ \E r \in Inflight : QuotaExpire(r)
  \/ \E r \in Inflight : QuotaStoreFail(r)
  \/ \E r \in Inflight, outcome \in VisionOutcomes : QuotaVision(r, outcome)
  \/ TickShort

SpecQuota == Init /\ [][NextQuota]_vars

\* C24: with the store available, of the checkAndConsumeQuota calls for one
\* user and one day key, whatever the order of their INCR and EXPIRE round
\* trips, at most limitPerDay return ok = true.
AtMostLimitAllowedPerDay ==
  cfg.redis =>
    \A userId \in {getUserIdOrAnonymous(i[3]) : i \in QuotaInputs} :
      \A t \in {StartTime, StartTime + ShortStep, StartTime + 2 * ShortStep} :
        Count(freeGrants, quotaKey(userId, utcDayKeyAt(t))) <= cfg.freeLimit

QuotaUsed(s, r) == NumOrZero(Get(s, quotaKey(r.userId, r.day)))

\* C25: a checkAndConsumeQuota call that returns ok = false leaves the user's
\* counter of the day as it was.
DeniedQuotaCallChangesNothing ==
  [][\A r \in Inflight :
       (/\ r.kind = "quota" /\ r.pc = "incr" /\ IsAnswerTo(r)
        /\ ~quotaOf(QuotaUsed(store', r)).ok)
         => QuotaUsed(store', r) = QuotaUsed(store, r)]_vars

\* C26: without a store client, and when a store call fails, no request that
\* is not a bypass goes on to the vision call.
UnavailableStoreDenies ==
  /\ ~cfg.redis =>
       \A i \in QuotaInputs :
         (i[1] /\ ~devBypassOk(i[2])) => ~QuotaArrival(i[1], i[2], i[3]).vision
  /\ \A r \in Inflight : r.kind = "quota" => ~ServerError(r).vision

-----------------------------------------------------------------------------
(* The ledger's books: the counter's ceiling, the balance's account, the
   token's owner, and the two balances of a purchase's answer *)

\* C27: every free counter in the store is at most the free limit, and so is
\* the freeUsedAfter of every reply of the consume script; a call past the
\* limit, paid by a credit or denied, reports the counter at the limit.
FreeCounterWithinLimit ==
  /\ \A k \in DOMAIN store : IsFreeKey(k) => store[k].val <= cfg.freeLimit
  /\ \A r \in Inflight :
       ConsumeReplied(r) =>
         /\ r.ret[3] <= cfg.freeLimit
         /\ r.ret[2] = 0 => r.ret[3] = cfg.freeLimit

\* the counter stands at the limit, and calls past it were paid by a credit and
\* denied
CounterAtLimitAfterPaidAndDenied ==
  \E r1 \in Inflight, r2 \in Inflight :
    /\ ConsumeReplied(r1) /\ r1.ret[1] = 1 /\ r1.ret[2] = 0
    /\ ConsumeReplied(r2) /\ r2.ret[1] = 0
    /\ r1.userId = r2.userId
    /\ cfg.freeLimit >= 1
    /\ FreeUsed(store, r1.userId, r1.day) = cfg.freeLimit

\* Two purchases and the classifications of one user, up to MaxInflight
\* requests at a time, while the clock stands still
NextBooks ==
  \/ CanAccept(MaxInflight) /\ Request(ClockUserHeaders, BookTokens)
  \/ Progress

SpecBooks == Init /\ [][NextBooks]_vars

\* the credits the ledger owes userId: the top-ups credited less the credits
\* charged
CreditsDue(userId) ==
  (cfg.topup * TimesCredited(userId)) - Count(paidGrants, userId)

\* C28: every user's balance is the top-up amount times the crediting calls
\* that returned didAdd = 1 for the user, less the user's consume calls that
\* were paid by a credit, whatever the order in which the two scripts ran; a
\* step changes a balance by one top-up, by one credit, or not at all.
CreditsConserved ==
  /\ [](\A u \in UserIds : CreditBalance(store, u) = CreditsDue(u))
  /\ [][\A u \in UserIds :
          CreditBalance(store', u) - CreditBalance(store, u) \in {0, -1, cfg.topup}]_vars

\* both purchases were credited to a balance that a classification had already
\* drawn on, and a classification was paid between or after them
TwoTopUpsAroundACharge ==
  \E u \in UserIds :
    /\ TimesCredited(u) = 2
    /\ Count(paidGrants, u) >= 1
    /\ \E r \in Inflight : CreditRan(r) /\ r.ret[1] = 1
                           /\ r.ret[2] < 2 * cfg.topup

\* the users a token was credited to
CreditedUsers(tok) == {creditLog[tok][i].user : i \in 1..Len(creditLog[tok])}

\* Across years, two users: verifications of the user "a", sent from two
\* devices, and of the user "b", up to MaxInflight at a time, with a year
\* passing between them.
NextOwners ==
  \/ CanAccept(MaxInflight) /\ \E userHdr \in BurstHeaders, token \in Tokens :
                                 VerifyStart(userHdr, TRUE, token, TRUE)
  \/ \E r \in Inflight, outcome \in ClientOutcomes : VerifyClient(r, outcome)
  \/ \E r \in Inflight, outcome \in GetOutcomes : VerifyGet(r, outcome)
  \/ \E r \in Inflight, outcome \in ConsumeOutcomes : VerifyConsume(r, outcome)
  \/ \E r \in Inflight : VerifyCredit(r)
  \/ \E r \in Inflight : VerifyReply(r)
  \/ \E r \in Inflight : VerifyStatus(r)
  \/ \E r \in Inflight : VerifyStoreFail(r)
  \/ \E step \in LongSteps : TickLong(step)

SpecOwners == Init /\ [][NextOwners]_vars

\* C29 as stated: a token is credited to at most one user; once it was credited,
\* a crediting call with the token for any user returns didAdd = 0 with that
\* user's balance and leaves the store as it is, and the step of such a call
\* by another user than the credited one changes no balance.
TokenCreditsOneUser ==
  /\ [](\A tok \in RealTokens :
          /\ Cardinality(CreditedUsers(tok)) <= 1
          /\ CreditedUsers(tok) # {} =>
               \A u \in UserIds :
                 CreditIfNewPurchase(store, tok, u, now)
                   = [store |-> store, ret |-> <<0, CreditBalance(store, u)>>])
  /\ [][\A r \in Inflight : \A r2 \in BagToSet(inflight') :
          (IsCreditCall(r, r2) /\ CreditedUsers(r.token) \notin {{}, {r.userId}}) =>
            /\ r2.ret[1] = 0
            /\ \A u \in UserIds : CreditBalance(store', u) = CreditBalance(store, u)
            /\ creditLog' = creditLog]_vars

\* C29, amended: the marker is keyed by the token alone, so while it is kept
\* (365 days from the crediting) the token grants credits to no other user:
\* two creditings of a token to different users are at least the retention
\* apart, a crediting call with a token whose marker is there returns
\* didAdd = 0 for any user with that user's balance and leaves the store as it
\* is, and the step of such a call changes no balance; a call with a token
\* whose marker has lapsed credits its caller, whoever was credited before.
TokenCreditsOneUserWhileMarked ==
  /\ [](\A tok \in RealTokens :
          /\ \A i, j \in 1..Len(creditLog[tok]) :
               (i < j /\ creditLog[tok][i].user # creditLog[tok][j].user) =>
                 creditLog[tok][j].t - creditLog[tok][i].t >= PurchaseTtl
          /\ Exists(store, purchaseKey(tok)) =>
               /\ CreditedUsers(tok) # {}
               /\ \A u \in UserIds :
                    CreditIfNewPurchase(store, tok, u, now)
                      = [store |-> store, ret |-> <<0, CreditBalance(store, u)>>])
  /\ [][\A r \in Inflight : \A r2 \in BagToSet(inflight') :
          IsCreditCall(r, r2) =>
            IF Exists(store, purchaseKey(r.token))
            THEN /\ r2.ret[1] = 0
                 /\ \A u \in UserIds : CreditBalance(store', u) = CreditBalance(store, u)
                 /\ creditLog' = creditLog
            ELSE /\ r2.ret[1] = 1
                 /\ CreditBalance(store', r.userId)
                      = CreditBalance(store, r.userId) + cfg.topup
                 /\ CreditedUsers(r.token)' = CreditedUsers(r.token) \cup {r.userId}]_vars

\* the token was credited to one user, and another user's call with it, made
\* while the marker was there, came back with didAdd = 0 and that user's
\* untouched balance
TokenRefusedToSecondUser ==
  \E tok \in RealTokens, r \in Inflight :
    /\ CreditRan(r) /\ r.token = tok
    /\ Exists(store, purchaseKey(tok))
    /\ CreditedUsers(tok) # {} /\ r.userId \notin CreditedUsers(tok)
    /\ r.ret = <<0, 0>>
    /\ \E u \in CreditedUsers(tok) :
         CreditBalance(store, u) + Count(paidGrants, u) = cfg.topup

\* a verification whose crediting call replied and whose status read is due
AwaitsVerifyStatus(r) == r.kind = "verify" /\ r.pc = "status"

\* C30 as stated: in the answer of a verification the creditsAfter of the
\* crediting call and the credits.remaining of the status read are equal,
\* whatever ran between the two.
CreditsAfterIsStatusCredits ==
  \A r \in Inflight :
    AwaitsVerifyStatus(r) =>
      LET a == VerifyAnswer(r, store).resp
      IN  a.creditsAfter = a.credits

\* C30, amended: creditsAfter is the balance the crediting call returned and
\* credits.remaining is the balance at the status read, which is the
\* creditsAfter of the user's latest script call; the two are equal right after
\* the crediting call and as long as the latest script call of the user
\* returned the same balance.
StatusCreditsAreLatestBalance ==
  /\ [](\A r \in Inflight :
          AwaitsVerifyStatus(r) =>
            LET a == VerifyAnswer(r, store).resp
            IN  /\ a.creditsAfter = r.ret[2]
                /\ a.credits = CreditBalance(store, r.userId)
                /\ <<a.credits>> = lastCredits[r.userId]
                /\ lastCredits[r.userId] = <<r.ret[2]>> => a.credits = a.creditsAfter)
  /\ [][\A r \in Inflight : \A r2 \in BagToSet(inflight') :
          IsCreditCall(r, r2) =>
            LET r3 == [r2 EXCEPT !.pc = "status", !.day = utcDayKeyAt(now')]
                a == VerifyAnswer(r3, store').resp
            IN  a.credits = a.creditsAfter]_vars

\* a credit of the purchase was spent between the crediting call and the
\* status read: the answer's two balances differ
CreditSpentBeforeStatusRead ==
  \E r \in Inflight :
    /\ AwaitsVerifyStatus(r) /\ r.ret[1] = 1
    /\ Count(paidGrants, r.userId) >= 1
    /\ VerifyAnswer(r, store).resp.credits < VerifyAnswer(r, store).resp.creditsAfter

====
